---- MODULE Spec2Model ----
(***************************************************************************)
(* Grading categorisation and statistics engine of the AI-assisted grading *)
(* UI: the classifier determineCategory, the aggregator                    *)
(* calculateGradingStats (assets/js/grading-logic.js) and the triage list  *)
(* builder renderStudentExamsList (assets/js/grading-view.js).             *)
(*                                                                         *)
(* Numbers.  JavaScript numbers are IEEE doubles.  The model computes with *)
(* exact rationals <<num, den>> (den > 0, lowest terms); "within           *)
(* tolerance" of the prose becomes equality of rationals.  For the inputs  *)
(* enumerated here (integer scores, maxPoints in {5, 10, 20}, integer      *)
(* thresholds) the double (score / maxPoints) * 100 compares against an    *)
(* integer threshold exactly as the rational does.  Infinity and NaN, the  *)
(* results of a division by zero, are values of their own.                 *)
(*                                                                         *)
(* Optional values.  A JavaScript field that may be absent is modelled by  *)
(* a flag beside it (hasQuestions, hasGrades, ...), null by isNull / found.*)
(*                                                                         *)
(* Specifications.  SpecClassify draws the arguments of determineCategory  *)
(* and calls it, once and again with a higher confidence.  Spec draws a    *)
(* repository and the stored thresholds and calls calculateGradingStats or *)
(* renderStudentExamsList on them.  The three others start from a loaded   *)
(* repository mirrored in session storage and take up to MaxSteps steps:   *)
(* SpecSettings stores thresholds, changes the filters and refreshes the   *)
(* statistics; SpecSession loads an exam, edits scores and checkpoint      *)
(* comments and sets manual statuses; SpecMirror adds to these the drag of *)
(* a checkpoint, the comment bubbles and the broadcasts.  In these three a *)
(* load is one step.                                                       *)
(*                                                                         *)
(* Asynchrony.  initializePdfViewer (assets/js/pdf-render.js) is an async  *)
(* function; SpecViewer runs up to MaxCalls calls of it on one container,  *)
(* one action per resumption after an await, in every interleaving.        *)
(* SpecLoads does the same for loadStudentExam, whose continuation follows *)
(* the return of its viewer call, and SpecExam adds the score inputs and   *)
(* the finalize button to the loads.                                       *)
(***************************************************************************)
EXTENDS Integers, Sequences, FiniteSets, TLC

\* ------------------------------------------------------------------ bounds
MaxManualStatus == 3
MaxStudents == 2
MaxQuestions == 2
MaxSubs == 2

\* Confidence is a percentage (grading-logic.js:4).
MaxConfidence == 100

CategoryKeys == <<"aiHigh", "aiLow", "lowScore", "gradedOnce", "graded2Plus">>
Categories == {CategoryKeys[i] : i \in 1..Len(CategoryKeys)}

ConfidenceValues == {0, 49, 50, 51, MaxConfidence}
ScoreValues == {0, 2, 5, 8, 10}
MaxPointsValues == {0, 5, 10}
ThresholdValues == {0, 50, MaxConfidence}
ThresholdPairs ==
    [aiConfidenceThreshold : ThresholdValues, studentScoreThreshold : ThresholdValues]

\* ------------------------------------------------------------- arithmetic
RECURSIVE Gcd(_, _)
Gcd(a, b) == IF b = 0 THEN a ELSE Gcd(b, a % b)

\* Division by zero raises nothing in JavaScript: x / 0 is Infinity for
\* x > 0 and 0 / 0 is NaN.  Infinity is <<1, 0>> and NaN is <<0, 0>>; the
\* numbers of the model are never negative.
Infinity == <<1, 0>>
NaN == <<0, 0>>

\* The rational n / d (d >= 0) in lowest terms.
Rat(n, d) == LET g == Gcd(IF n < 0 THEN -n ELSE n, d)
             IN  IF d = 0 THEN (IF n = 0 THEN NaN ELSE Infinity)
                 ELSE IF n = 0 THEN <<0, 1>> ELSE <<n \div g, d \div g>>
RatInt(n) == <<n, 1>>
RatAdd(a, b) == IF a = Infinity /\ b = Infinity THEN Infinity
                ELSE Rat(a[1] * b[2] + b[1] * a[2], a[2] * b[2])
RatMul(a, b) == Rat(a[1] * b[1], a[2] * b[2])
RatDiv(a, b) == Rat(a[1] * b[2], a[2] * b[1])
RatLess(a, b) == a[1] * b[2] < b[1] * a[2]

\* ------------------------------------------------------------- classifier
\* const scorePercentage = maxPoints > 0 ? (score / maxPoints) * 100 : 0;
scorePercentage(score, maxPoints) ==
    IF maxPoints > 0 THEN RatMul(RatDiv(RatInt(score), RatInt(maxPoints)), RatInt(100))
    ELSE RatInt(0)

\* Mutants of determineCategory: plausible slips of the same code.
determineCategory_exactTwo(confidence, score, maxPoints, manualStatus, thresholds) ==
    IF manualStatus = 2 THEN "graded2Plus"
    ELSE IF manualStatus = 1 THEN "gradedOnce"
    ELSE IF confidence < thresholds.aiConfidenceThreshold THEN "aiLow"
    ELSE IF RatLess(scorePercentage(score, maxPoints),
                    RatInt(thresholds.studentScoreThreshold)) THEN "lowScore"
    ELSE "aiHigh"

determineCategory_scoreFirst(confidence, score, maxPoints, manualStatus, thresholds) ==
    IF manualStatus >= 2 THEN "graded2Plus"
    ELSE IF manualStatus = 1 THEN "gradedOnce"
    ELSE IF RatLess(scorePercentage(score, maxPoints),
                    RatInt(thresholds.studentScoreThreshold)) THEN "lowScore"
    ELSE IF confidence < thresholds.aiConfidenceThreshold THEN "aiLow"
    ELSE "aiHigh"

determineCategory_inclusive(confidence, score, maxPoints, manualStatus, thresholds) ==
    IF manualStatus >= 2 THEN "graded2Plus"
    ELSE IF manualStatus = 1 THEN "gradedOnce"
    ELSE IF confidence <= thresholds.aiConfidenceThreshold THEN "aiLow"
    ELSE IF ~RatLess(RatInt(thresholds.studentScoreThreshold),
                     scorePercentage(score, maxPoints)) THEN "lowScore"
    ELSE "aiHigh"

determineCategory_reversed(confidence, score, maxPoints, manualStatus, thresholds) ==
    IF manualStatus >= 2 THEN "graded2Plus"
    ELSE IF manualStatus = 1 THEN "gradedOnce"
    ELSE IF confidence > thresholds.aiConfidenceThreshold THEN "aiLow"
    ELSE IF RatLess(scorePercentage(score, maxPoints),
                    RatInt(thresholds.studentScoreThreshold)) THEN "lowScore"
    ELSE "aiHigh"

determineCategory(confidence, score, maxPoints, manualStatus, thresholds) ==
    IF manualStatus >= 2 THEN "graded2Plus"
    ELSE IF manualStatus = 1 THEN "gradedOnce"
    ELSE IF confidence < thresholds.aiConfidenceThreshold THEN "aiLow"
    ELSE IF RatLess(scorePercentage(score, maxPoints),
                    RatInt(thresholds.studentScoreThreshold)) THEN "lowScore"
    ELSE "aiHigh"

\* ------------------------------------------------------------- repository
\* Ids are tuples: <<i>> is top-level question i, <<i, j>> its j-th
\* subquestion.  Student ids and names are positive numbers.  An unset filter
\* (the empty string of a <select>) is <<>> for questions and 0 for students.
NoQuestionFilter == <<>>
NoStudentFilter == 0

\* score: hasScore is FALSE for a score that is null or missing.  comment: a
\* text is a number, 0 the empty or missing one.  gradingHistory is the length
\* of that array and manualScore is only known to be there or not; no grade
\* of a loaded repository has either, and no code of the sources writes one.
EmptyGrade ==
    [questionId |-> <<>>, confidence |-> 0, aiSuggestedScore |-> 0,
     manualStatus |-> 0, hasScore |-> FALSE, score |-> 0, comment |-> 0,
     hasGradingHistory |-> FALSE, gradingHistory |-> 0, hasManualScore |-> FALSE]

AiGrade(c, s, m) ==
    [EmptyGrade EXCEPT !.confidence = c, !.aiSuggestedScore = s, !.manualStatus = m]

\* The AI-supplied grades a loaded repository holds for an item.
GradeChoices ==
    << AiGrade(50, 5, 0),    \* on both thresholds of 50 when the item has 10 points
       AiGrade(90, 2, 0),    \* confident, low score
       AiGrade(90, 8, 1),    \* graded once
       AiGrade(30, 10, 2) >> \* graded twice

\* A student's grades follow one of these profiles: profile p gives the m-th
\* gradable item choice (p + m - 1) modulo NumProfiles, choice 0 being no
\* entry.  A student left with no entry at all has an empty grades array when
\* its id is odd and no grades array when it is even.
NumProfiles == Len(GradeChoices) + 1
ChoiceAt(p, m) == (p + m - 1) % NumProfiles

SubPoints(j) == IF j % 3 = 1 THEN 5 ELSE IF j % 3 = 2 THEN 0 ELSE 10
QuestionPoints(i) == IF i % 2 = 1 THEN 10 ELSE 20

\* Question i of a repository of shape k has k - i + 1 subquestions (none when
\* that is not positive).  A standalone question with an even index carries an
\* empty subquestions array, one with an odd index carries none.
SubCount(i, k) == IF k - i + 1 > 0 THEN k - i + 1 ELSE 0

MakeQuestion(i, k) ==
    [id |-> <<i>>, points |-> QuestionPoints(i),
     hasSubquestions |-> (SubCount(i, k) > 0 \/ i % 2 = 0),
     subquestions |-> [j \in 1..SubCount(i, k) |-> [id |-> <<i, j>>, points |-> SubPoints(j)]]]

MakeQuestions(n, k) == [i \in 1..n |-> MakeQuestion(i, k)]

\* const isParent = question.subquestions && question.subquestions.length > 0;
isParent(question) == question.hasSubquestions /\ Len(question.subquestions) > 0

\* const subItems = isParent ? question.subquestions : [question];
subItems(question) ==
    IF isParent(question) THEN question.subquestions
    ELSE <<[id |-> question.id, points |-> question.points]>>

RECURSIVE LeafItemsFrom(_, _)
LeafItemsFrom(questions, i) ==
    IF i > Len(questions) THEN <<>>
    ELSE subItems(questions[i]) \o LeafItemsFrom(questions, i + 1)
LeafItems(questions) == LeafItemsFrom(questions, 1)

RECURSIVE MakeGradesFrom(_, _, _)
MakeGradesFrom(leaves, p, m) ==
    IF m > Len(leaves) THEN <<>>
    ELSE LET c == ChoiceAt(p, m)
         IN  (IF c = 0 THEN <<>>
              ELSE <<[GradeChoices[c] EXCEPT !.questionId = leaves[m].id]>>)
             \o MakeGradesFrom(leaves, p, m + 1)

MakeStudent(s, p, questions) ==
    LET grades == MakeGradesFrom(LeafItems(questions), p, 1)
    IN  [id |-> s, name |-> s,
         hasGrades |-> (Len(grades) > 0 \/ s % 2 = 1),
         grades |-> grades]

MakeRepository(n, k, profiles) ==
    LET questions == MakeQuestions(n, k)
    IN  [isNull |-> FALSE,
         hasQuestions |-> TRUE, questions |-> questions,
         hasStudentSubmissions |-> TRUE,
         studentSubmissions |->
             [s \in 1..Len(profiles) |-> MakeStudent(s, profiles[s], questions)]]

ProfileSeqs == UNION {[1..m -> 0..(NumProfiles - 1)] : m \in 0..MaxStudents}

WellFormedRepositories ==
    {MakeRepository(n, k, ps) : n \in 0..MaxQuestions, k \in 0..MaxSubs, ps \in ProfileSeqs}

NullRepository ==
    [isNull |-> TRUE, hasQuestions |-> FALSE, questions |-> <<>>,
     hasStudentSubmissions |-> FALSE, studentSubmissions |-> <<>>]

\* Repositories lacking a part: no repository, no questions, no
\* studentSubmissions, neither.
IncompleteRepositories ==
    {NullRepository}
    \cup UNION {
        LET r == MakeRepository(n, k, [s \in 1..m |-> 1])
        IN  {[r EXCEPT !.hasQuestions = FALSE, !.questions = <<>>],
             [r EXCEPT !.hasStudentSubmissions = FALSE, !.studentSubmissions = <<>>],
             [r EXCEPT !.hasQuestions = FALSE, !.questions = <<>>,
                       !.hasStudentSubmissions = FALSE, !.studentSubmissions = <<>>]}
        : n \in 1..MaxQuestions, k \in 0..MaxSubs, m \in 0..MaxStudents}

Repositories == WellFormedRepositories \cup IncompleteRepositories

\* Array.prototype.find returns the first match: the least of the matching
\* indices S, 0 if there is none.
FirstIndex(S) == IF S = {} THEN 0 ELSE CHOOSE i \in S : \A j \in S : i <= j

\* student.grades.find(g => g.questionId === questionId)
GradeOf(student, questionId) ==
    LET i == IF student.hasGrades
             THEN FirstIndex({k \in 1..Len(student.grades) :
                                 student.grades[k].questionId = questionId})
             ELSE 0
    IN  IF i = 0 THEN [found |-> FALSE, grade |-> EmptyGrade]
        ELSE [found |-> TRUE, grade |-> student.grades[i]]

\* ------------------------------------------------------------- aggregator
\* const findGrade = (studentId, questionId) => { ... }
findGrade(repository, studentId, questionId) ==
    LET i == FirstIndex({k \in 1..Len(repository.studentSubmissions) :
                            repository.studentSubmissions[k].id = studentId})
    IN  IF i = 0 THEN [found |-> FALSE, grade |-> EmptyGrade]
        ELSE GradeOf(repository.studentSubmissions[i], questionId)

ZeroGlobalStats ==
    [aiHigh |-> RatInt(0), aiLow |-> RatInt(0), lowScore |-> RatInt(0),
     gradedOnce |-> RatInt(0), graded2Plus |-> RatInt(0), totalWeight |-> RatInt(0)]

ZeroQuestionStats ==
    [aiHigh |-> RatInt(0), aiLow |-> RatInt(0), lowScore |-> RatInt(0),
     gradedOnce |-> RatInt(0), graded2Plus |-> RatInt(0), totalCount |-> 0]

\* const weightPerQuestion = 100 / numQuestions;
weightPerQuestion(repository) ==
    RatDiv(RatInt(100), RatInt(Len(repository.questions)))

\* Mutants of weightPerSubItem: the question's weight not shared among its
\* items; the pie cut by point value instead of equally.
weightPerSubItem_undivided(repository, question) ==
    weightPerQuestion(repository)

RECURSIVE totalPoints(_, _)
totalPoints(questions, i) ==
    IF i > Len(questions) THEN 0 ELSE questions[i].points + totalPoints(questions, i + 1)

weightPerSubItem_byPoints(repository, question) ==
    RatDiv(Rat(100 * question.points, totalPoints(repository.questions, 1)),
           RatInt(Len(subItems(question))))

\* const weightPerSubItem = weightPerQuestion / subItems.length;
weightPerSubItem(repository, question) ==
    RatDiv(weightPerQuestion(repository), RatInt(Len(subItems(question))))

\* The category of one (item, student) pair: lines 80-90.
pairCategory(repository, item, student, parameters) ==
    LET g == findGrade(repository, student.id, item.id)
    IN  IF g.found
        THEN determineCategory(g.grade.confidence, g.grade.aiSuggestedScore, item.points,
                               g.grade.manualStatus, parameters)
        ELSE "aiLow"

\* const manualCount = grade.gradingHistory ? grade.gradingHistory.length
\*     : (grade.manualScore !== undefined ? 1 : 0);  of the second definition of
\* calculateGradingStats, line 194.
manualCount(grade) ==
    IF grade.hasGradingHistory THEN grade.gradingHistory
    ELSE IF grade.hasManualScore THEN 1 ELSE 0

\* The category of one (item, student) pair under the second definition of
\* calculateGradingStats: lines 187-213.
pairCategoryByHistory(repository, item, student, parameters) ==
    LET g == findGrade(repository, student.id, item.id)
    IN  IF ~g.found THEN "aiLow"
        ELSE IF manualCount(g.grade) >= 2 THEN "graded2Plus"
        ELSE IF manualCount(g.grade) = 1 THEN "gradedOnce"
        ELSE IF g.grade.confidence >= parameters.aiConfidenceThreshold
        THEN IF RatLess(scorePercentage(g.grade.aiSuggestedScore, item.points),
                        RatInt(parameters.studentScoreThreshold))
             THEN "lowScore" ELSE "aiHigh"
        ELSE "aiLow"

\* const contribution = (1 / repository.studentSubmissions.length) * weightPerSubItem;
contribution(repository, question) ==
    RatMul(RatDiv(RatInt(1), RatInt(Len(repository.studentSubmissions))),
           weightPerSubItem(repository, question))

\* Mutant of processPair: totalCount is not incremented.
processPair_noTotal(acc, repository, question, item, student, parameters) ==
    LET category == pairCategory(repository, item, student, parameters)
        c == contribution(repository, question)
        qs == acc.questionStats[question.id]
    IN  [globalStats |->
             [acc.globalStats EXCEPT ![category] = RatAdd(@, c),
                                     !.totalWeight = RatAdd(@, c)],
         questionStats |->
             [acc.questionStats EXCEPT ![question.id] =
                 [qs EXCEPT ![category] = RatAdd(@, RatInt(1))]]]

\* Mutant of processPair: the contribution is not added to totalWeight.
processPair_noWeight(acc, repository, question, item, student, parameters) ==
    LET category == pairCategory(repository, item, student, parameters)
        c == contribution(repository, question)
        qs == acc.questionStats[question.id]
    IN  [globalStats |-> [acc.globalStats EXCEPT ![category] = RatAdd(@, c)],
         questionStats |->
             [acc.questionStats EXCEPT ![question.id] =
                 [qs EXCEPT ![category] = RatAdd(@, RatInt(1)),
                            !.totalCount = @ + 1]]]

\* The body of the innermost loop: lines 80-99.
processPair(acc, repository, question, item, student, parameters) ==
    LET category == pairCategory(repository, item, student, parameters)
        c == contribution(repository, question)
        qs == acc.questionStats[question.id]
    IN  [globalStats |->
             [acc.globalStats EXCEPT ![category] = RatAdd(@, c),
                                     !.totalWeight = RatAdd(@, c)],
         questionStats |->
             [acc.questionStats EXCEPT ![question.id] =
                 [qs EXCEPT ![category] = RatAdd(@, RatInt(1)),
                            !.totalCount = @ + 1]]]

RECURSIVE forEachStudent(_, _, _, _, _, _)
forEachStudent(acc, repository, question, item, parameters, s) ==
    IF s > Len(repository.studentSubmissions) THEN acc
    ELSE forEachStudent(
             processPair(acc, repository, question, item,
                         repository.studentSubmissions[s], parameters),
             repository, question, item, parameters, s + 1)

RECURSIVE forEachSubItem(_, _, _, _, _)
forEachSubItem(acc, repository, question, parameters, j) ==
    IF j > Len(subItems(question)) THEN acc
    ELSE forEachSubItem(
             forEachStudent(acc, repository, question, subItems(question)[j], parameters, 1),
             repository, question, parameters, j + 1)

\* Mutant of toPercentages: the counts are divided by the total and not
\* multiplied by 100.
toPercentages_fraction(qs) ==
    IF qs.totalCount > 0
    THEN [key \in DOMAIN qs |->
             IF key # "totalCount" THEN RatDiv(qs[key], RatInt(qs.totalCount)) ELSE qs[key]]
    ELSE qs

\* Mutant of toPercentages: the conversion is not guarded by total > 0.
toPercentages_unguarded(qs) ==
    [key \in DOMAIN qs |->
        IF key # "totalCount"
        THEN RatMul(RatDiv(qs[key], RatInt(qs.totalCount)), RatInt(100))
        ELSE qs[key]]

\* Convert Aggregated Stats to Percentages: lines 104-111.
toPercentages(qs) ==
    IF qs.totalCount > 0
    THEN [key \in DOMAIN qs |->
             IF key # "totalCount"
             THEN RatMul(RatDiv(qs[key], RatInt(qs.totalCount)), RatInt(100))
             ELSE qs[key]]
    ELSE qs

\* The body of repository.questions.forEach: lines 60-111.
processQuestion(acc, repository, question, parameters) ==
    LET start == [acc EXCEPT !.questionStats =
                     [id \in (DOMAIN @) \cup {question.id} |->
                         IF id = question.id THEN ZeroQuestionStats ELSE @[id]]]
        done == forEachSubItem(start, repository, question, parameters, 1)
    IN  [done EXCEPT !.questionStats[question.id] = toPercentages(@)]

RECURSIVE forEachQuestion(_, _, _, _)
forEachQuestion(acc, repository, parameters, i) ==
    IF i > Len(repository.questions) THEN acc
    ELSE forEachQuestion(processQuestion(acc, repository, repository.questions[i], parameters),
                         repository, parameters, i + 1)

NoStats == [globalStats |-> ZeroGlobalStats, questionStats |-> <<>>]

\* calculateGradingStats(repository, parameters): status "null" is the null
\* return, "ok" a returned { globalStats, questionStats }.
calculateGradingStats(repository, parameters) ==
    IF repository.isNull \/ ~repository.hasQuestions \/ ~repository.hasStudentSubmissions
    THEN [status |-> "null", globalStats |-> ZeroGlobalStats, questionStats |-> <<>>,
          parameters |-> parameters]
    ELSE LET r == forEachQuestion(NoStats, repository, parameters, 1)
         IN  [status |-> "ok", globalStats |-> r.globalStats,
              questionStats |-> r.questionStats, parameters |-> parameters]

\* ------------------------------------------------------ triage list builder
\* A localStorage item is absent (getItem returns null) or a string of decimal
\* digits, held as the sequence of its digits.
NoItem == [present |-> FALSE, digits |-> <<>>]
Item(ds) == [present |-> TRUE, digits |-> ds]

\* localStorage with neither threshold stored.
NoStorage == [aiConfidenceThreshold |-> NoItem, studentScoreThreshold |-> NoItem]

\* The fallbacks '80' and '50' of getCategory.
DefaultAiConfidenceThreshold == <<8, 0>>
DefaultStudentScoreThreshold == <<5, 0>>

\* parseInt(str, 10) of a string of digits.  -1 stands for NaN (no digit):
\* like NaN it is below no confidence and no score percentage.
RECURSIVE parseDigits(_, _, _)
parseDigits(ds, i, acc) ==
    IF i > Len(ds) THEN acc ELSE parseDigits(ds, i + 1, acc * 10 + ds[i])
parseInt(ds) == IF Len(ds) = 0 THEN 0 - 1 ELSE parseDigits(ds, 1, 0)

\* localStorage.getItem(key) || fallback: null and '' are both falsy.
getItemOr(item, fallback) ==
    IF item.present /\ Len(item.digits) > 0 THEN item.digits ELSE fallback

\* The thresholds getCategory reads on each call: lines 811-812.
storedThresholds(storage) ==
    [aiConfidenceThreshold |->
        parseInt(getItemOr(storage.aiConfidenceThreshold, DefaultAiConfidenceThreshold)),
     studentScoreThreshold |->
        parseInt(getItemOr(storage.studentScoreThreshold, DefaultStudentScoreThreshold))]

getCategoryCode(catString) ==
    CASE catString = "graded2Plus" -> 4
      [] catString = "gradedOnce" -> 3
      [] catString = "aiHigh" -> 2
      [] catString = "lowScore" -> 1
      [] catString = "aiLow" -> 0
      [] OTHER -> 0

\* Mutant of getCategory: the thresholds are the defaults, whatever is stored.
getCategory_defaults(storage, confidence, score, maxPoints, manualStatus) ==
    getCategoryCode(determineCategory(confidence, score, maxPoints, manualStatus,
                                      storedThresholds(NoStorage)))

getCategory(storage, confidence, score, maxPoints, manualStatus) ==
    getCategoryCode(determineCategory(confidence, score, maxPoints, manualStatus,
                                      storedThresholds(storage)))

\* The four values read from a (sub)question's grade: lines 841-847, 861-866
\* and 880-886.  confidence: the ?? 0 default of a missing grade.
itemGrade(student, item) ==
    LET g == GradeOf(student, item.id)
    IN  [confidence |-> IF g.found THEN g.grade.confidence ELSE 0,
         aiSuggestedScore |-> IF g.found THEN g.grade.aiSuggestedScore ELSE 0,
         maxPoints |-> item.points,
         manualStatus |-> IF g.found THEN g.grade.manualStatus ELSE 0]

itemCategory(storage, student, item) ==
    LET g == itemGrade(student, item)
    IN  getCategory(storage, g.confidence, g.aiSuggestedScore, g.maxPoints, g.manualStatus)

SeqMin(seq) == CHOOSE x \in {seq[i] : i \in 1..Len(seq)} :
                   \A i \in 1..Len(seq) : x <= seq[i]

ListItem(student, questionId, confidence, category) ==
    [taskName |-> <<student.name, questionId>>, confidence |-> confidence,
     category |-> category, studentName |-> student.name, questionId |-> questionId]

\* Mutant of subEntries: the question filter is not applied to subquestions.
RECURSIVE subEntries_unfiltered(_, _, _, _, _)
subEntries_unfiltered(storage, student, question, selectedQuestion, j) ==
    IF j > Len(question.subquestions) THEN <<>>
    ELSE LET sub == question.subquestions[j]
         IN  <<ListItem(student, sub.id, itemGrade(student, sub).confidence,
                        itemCategory(storage, student, sub))>>
             \o subEntries_unfiltered(storage, student, question, selectedQuestion, j + 1)

\* Render Subquestions: lines 856-875.
RECURSIVE subEntries(_, _, _, _, _)
subEntries(storage, student, question, selectedQuestion, j) ==
    IF j > Len(question.subquestions) THEN <<>>
    ELSE LET sub == question.subquestions[j]
         IN  (IF selectedQuestion # NoQuestionFilter /\ sub.id # selectedQuestion
              THEN <<>>
              ELSE <<ListItem(student, sub.id, itemGrade(student, sub).confidence,
                              itemCategory(storage, student, sub))>>)
             \o subEntries(storage, student, question, selectedQuestion, j + 1)

SeqMax(seq) == CHOOSE x \in {seq[i] : i \in 1..Len(seq)} :
                   \A i \in 1..Len(seq) : x >= seq[i]

\* Mutant of parentCategory: the best child instead of the worst.
parentCategory_max(storage, student, question) ==
    SeqMax([j \in 1..Len(question.subquestions) |->
               itemCategory(storage, student, question.subquestions[j])])

\* parentCategory and parentConfidence of a question with subquestions:
\* lines 837-853.
parentCategory(storage, student, question) ==
    SeqMin([j \in 1..Len(question.subquestions) |->
               itemCategory(storage, student, question.subquestions[j])])
parentConfidence(student, question) ==
    SeqMin([j \in 1..Len(question.subquestions) |->
               itemGrade(student, question.subquestions[j]).confidence])

\* Mutant of questionEntries: a question with subquestions gets no entry of
\* its own.
questionEntries_leavesOnly(storage, student, question, selectedQuestion) ==
    IF question.hasSubquestions /\ Len(question.subquestions) > 0
    THEN subEntries(storage, student, question, selectedQuestion, 1)
    ELSE IF selectedQuestion # NoQuestionFilter /\ question.id # selectedQuestion
         THEN <<>>
         ELSE LET own == [id |-> question.id, points |-> question.points]
              IN  <<ListItem(student, question.id, itemGrade(student, own).confidence,
                             itemCategory(storage, student, own))>>

\* The body of repository.questions.forEach: lines 828-900.
questionEntries(storage, student, question, selectedQuestion) ==
    IF question.hasSubquestions /\ Len(question.subquestions) > 0
    THEN subEntries(storage, student, question, selectedQuestion, 1)
         \o (IF selectedQuestion = NoQuestionFilter \/ question.id = selectedQuestion
             THEN <<ListItem(student, question.id, parentConfidence(student, question),
                             parentCategory(storage, student, question))>>
             ELSE <<>>)
    ELSE IF selectedQuestion # NoQuestionFilter /\ question.id # selectedQuestion
         THEN <<>>
         ELSE LET own == [id |-> question.id, points |-> question.points]
              IN  <<ListItem(student, question.id, itemGrade(student, own).confidence,
                             itemCategory(storage, student, own))>>

RECURSIVE studentEntries(_, _, _, _, _)
studentEntries(storage, student, questions, selectedQuestion, i) ==
    IF i > Len(questions) THEN <<>>
    ELSE questionEntries(storage, student, questions[i], selectedQuestion)
         \o studentEntries(storage, student, questions, selectedQuestion, i + 1)

\* repository.studentSubmissions.forEach: lines 823-902.
RECURSIVE allItems(_, _, _, _, _)
allItems(storage, repo, selectedQuestion, selectedStudent, s) ==
    IF s > Len(repo.studentSubmissions) THEN <<>>
    ELSE LET student == repo.studentSubmissions[s]
         IN  (IF selectedStudent # NoStudentFilter /\ student.name # selectedStudent
              THEN <<>>
              ELSE studentEntries(storage, student, repo.questions, selectedQuestion, 1))
             \o allItems(storage, repo, selectedQuestion, selectedStudent, s + 1)

\* Mutant of compareItems: the confidence does not break ties.
compareItems_categoryOnly(a, b) ==
    a.category - b.category

\* The comparator of allItems.sort: lines 905-910.
compareItems(a, b) ==
    IF a.category # b.category THEN a.category - b.category
    ELSE a.confidence - b.confidence

\* Array.prototype.sort is stable: x goes before the first element greater
\* than it.
insertItem(sorted, x) ==
    LET later == {i \in 1..Len(sorted) : compareItems(sorted[i], x) > 0}
        at == IF later = {} THEN Len(sorted) + 1
              ELSE CHOOSE i \in later : \A j \in later : i <= j
    IN  SubSeq(sorted, 1, at - 1) \o <<x>> \o SubSeq(sorted, at, Len(sorted))

RECURSIVE sortFrom(_, _, _)
sortFrom(items, i, sorted) ==
    IF i > Len(items) THEN sorted
    ELSE sortFrom(items, i + 1, insertItem(sorted, items[i]))
sortItems(items) == sortFrom(items, 1, <<>>)

\* renderStudentExamsList(repository): status "noData" is the placeholder of
\* the guard clause with count (0), "threw" a TypeError leaving the handler,
\* "ok" the rendered list (items) and the count shown.
renderStudentExamsList(repo, storage, selectedQuestion, selectedStudent) ==
    LET base == [selectedQuestion |-> selectedQuestion,
                 selectedStudent |-> selectedStudent,
                 thresholds |-> storedThresholds(storage)]
    IN  IF repo.isNull \/ ~repo.hasQuestions
        THEN base @@ [status |-> "noData", items |-> <<>>, count |-> 0]
        ELSE IF ~repo.hasStudentSubmissions
        THEN base @@ [status |-> "threw", items |-> <<>>, count |-> 0]
        ELSE LET sorted == sortItems(allItems(storage, repo, selectedQuestion,
                                              selectedStudent, 1))
             IN  base @@ [status |-> "ok", items |-> sorted, count |-> Len(sorted)]

\* The options populateFilters puts in the two selects.
QuestionOptions(repo) ==
    {NoQuestionFilter}
    \cup {repo.questions[i].id : i \in 1..Len(repo.questions)}
    \cup UNION {{repo.questions[i].subquestions[j].id :
                    j \in 1..Len(repo.questions[i].subquestions)} :
                i \in 1..Len(repo.questions)}
\* Of the students' names the first is tried.
StudentOptions(repo) ==
    {NoStudentFilter}
    \cup {repo.studentSubmissions[s].name : s \in 1..Len(repo.studentSubmissions) \cap {1}}

\* ---------------------------------------------------------- grading session
\* The rest of window.currentRepository: gradingCheckpoints, an array of
\* { questionId, position }, and appState with its comments (an array that may
\* be missing) and broadcasts.  A position is a number, 0 the loaded one.
Checkpoint(id) == [questionId |-> id, position |-> 0]

\* The loaded checkpoints: one for every gradable item but the second
\* subquestion of a question, which has none.
RECURSIVE MakeCheckpointsFrom(_, _)
MakeCheckpointsFrom(leaves, m) ==
    IF m > Len(leaves) THEN <<>>
    ELSE (IF Len(leaves[m].id) = 2 /\ leaves[m].id[2] = 2 THEN <<>>
          ELSE <<Checkpoint(leaves[m].id)>>)
         \o MakeCheckpointsFrom(leaves, m + 1)
MakeCheckpoints(questions) == MakeCheckpointsFrom(LeafItems(questions), 1)

NoAppState == [hasComments |-> FALSE, comments |-> <<>>, broadcasts |-> <<>>]

\* cps.filter(cp => cp.questionId === id), as indices into cps.
checkpointsOf(cps, id) ==
    LET hits == {i \in 1..Len(cps) : cps[i].questionId = id}
        RECURSIVE Pick(_)
        Pick(i) == IF i > Len(cps) THEN <<>>
                   ELSE (IF i \in hits THEN <<i>> ELSE <<>>) \o Pick(i + 1)
    IN  Pick(1)

\* subquestions.find(s => cps.some(cp => cp.questionId === s.id)): the index
\* of the first subquestion that has a checkpoint, 0 if none has.
firstSubWithCheckpoint(cps, subs) ==
    FirstIndex({j \in 1..Len(subs) : checkpointsOf(cps, subs[j].id) # <<>>})

\* The checkpoints renderGradingCheckpoints shows for questionId: its own, or
\* else those of the first subquestion of that question that has any, or else
\* (questionId not being a top-level question with a subquestions array) those
\* of the first subquestion with any of the question holding questionId.
relevantCheckpoints(repo, cps, questionId) ==
    LET own == checkpointsOf(cps, questionId)
        q == FirstIndex({i \in 1..Len(repo.questions) :
                            repo.questions[i].id = questionId})
        parent == FirstIndex({i \in 1..Len(repo.questions) :
                     \E j \in 1..Len(repo.questions[i].subquestions) :
                         repo.questions[i].subquestions[j].id = questionId})
    IN  IF own # <<>> THEN own
        ELSE IF q # 0 /\ repo.questions[q].hasSubquestions
        THEN LET subs == repo.questions[q].subquestions
                 j == firstSubWithCheckpoint(cps, subs)
             IN  IF j = 0 THEN <<>> ELSE checkpointsOf(cps, subs[j].id)
        ELSE IF parent = 0 THEN <<>>
        ELSE LET subs == repo.questions[parent].subquestions
                 j == firstSubWithCheckpoint(cps, subs)
             IN  IF j = 0 THEN <<>> ELSE checkpointsOf(cps, subs[j].id)

\* grades.find(g => g.questionId === qId) as an index, 0 for undefined.
gradeIndex(grades, qId) ==
    FirstIndex({k \in 1..Len(grades) : grades[k].questionId = qId})

\* Mutant of withGradeEntry: an entry is pushed whether or not one exists.
withGradeEntry_alwaysPush(grades, qId) ==
    Append(grades, [EmptyGrade EXCEPT !.questionId = qId])

\* if (!gradeEntry) { gradeEntry = { questionId: qId, confidence: 0,
\* aiSuggestedScore: 0 }; grades.push(gradeEntry); }
withGradeEntry(grades, qId) ==
    IF gradeIndex(grades, qId) = 0
    THEN Append(grades, [EmptyGrade EXCEPT !.questionId = qId])
    ELSE grades

\* The value of a number input: '' or a string of digits, as its digits.
\* handleScoreChange without its display updates: the student after the call.
handleScoreChange(student, val, qId) ==
    IF student.hasGrades
    THEN LET grades == withGradeEntry(student.grades, qId)
             i == gradeIndex(grades, qId)
         IN  [student EXCEPT !.grades =
                 [grades EXCEPT ![i].hasScore = (val # <<>>),
                                ![i].score = IF val = <<>> THEN 0 ELSE parseInt(val)]]
    ELSE student

\* The input listener of a checkpoint's textarea: lines 300-310.
handleCommentInput(student, text, qId) ==
    IF student.hasGrades
    THEN LET grades == withGradeEntry(student.grades, qId)
             i == gradeIndex(grades, qId)
         IN  [student EXCEPT !.grades = [grades EXCEPT ![i].comment = text]]
    ELSE student

\* setStatus(qId, newStatus) of updateManualGradingStatus: lines 1074-1082.
setStatus(student, qId, newStatus) ==
    LET grades == withGradeEntry(student.grades, qId)
        i == gradeIndex(grades, qId)
    IN  [student EXCEPT !.grades = [grades EXCEPT ![i].manualStatus = newStatus]]

RECURSIVE setStatusOfSubs(_, _, _, _)
setStatusOfSubs(student, subs, status, j) ==
    IF j > Len(subs) THEN student
    ELSE setStatusOfSubs(setStatus(student, subs[j].id, status), subs, status, j + 1)

\* updateManualGradingStatus up to its save: outcome "return" is an early
\* return (no such student), "threw" the TypeError of student.grades.find on a
\* student without grades, "done" the fall through to the save and the render.
updateManualGradingStatus(repo, studentName, questionId, status) ==
    LET s == FirstIndex({k \in 1..Len(repo.studentSubmissions) :
                            repo.studentSubmissions[k].name = studentName})
        q == FirstIndex({i \in 1..Len(repo.questions) :
                            repo.questions[i].id = questionId})
        down == q # 0 /\ repo.questions[q].hasSubquestions
        calls == IF down THEN Len(repo.questions[q].subquestions) ELSE 1
    IN  IF s = 0 THEN [outcome |-> "return", repository |-> repo]
        ELSE IF calls > 0 /\ ~repo.studentSubmissions[s].hasGrades
        THEN [outcome |-> "threw", repository |-> repo]
        ELSE [outcome |-> "done",
              repository |->
                [repo EXCEPT !.studentSubmissions[s] =
                    IF down
                    THEN setStatusOfSubs(@, repo.questions[q].subquestions, status, 1)
                    ELSE setStatus(@, questionId, status)]]

\* The ids setStatus is called with by updateManualGradingStatus(repository,
\* studentName, questionId, status): lines 1084-1092.
statusTargets(repo, questionId) ==
    LET q == FirstIndex({i \in 1..Len(repo.questions) :
                            repo.questions[i].id = questionId})
    IN  IF q # 0 /\ repo.questions[q].hasSubquestions
        THEN [j \in 1..Len(repo.questions[q].subquestions) |->
                 repo.questions[q].subquestions[j].id]
        ELSE <<questionId>>

\* allAssigned of updateTotalScoreDisplay: lines 497-513.  shown is the
\* module's checkpoints array, as indices of cps.
allAssigned(student, cps, shown) ==
    /\ Len(shown) > 0
    /\ \A c \in 1..Len(shown) :
           LET g == GradeOf(student, cps[shown[c]].questionId)
           IN  g.found /\ g.grade.hasScore

\* The disabled property updateTotalScoreDisplay leaves on the finalize
\* button: lines 524-532.
disabledAfterTotals(student, cps, shown) == ~allAssigned(student, cps, shown)

\* The children of a page container: the overlay a call (0: the markup of the
\* grading panel) put there, and page wrappers.
Overlay(c) == [kind |-> "overlay", call |-> c, page |-> 0]
PageWrapper(c, n) == [kind |-> "page", call |-> c, page |-> n]

\* Mutant of repositoryAfterStats: the aggregator fills in a default grade
\* where it finds none.
repositoryAfterStats_defaultGrades(repo, parameters) ==
    [repo EXCEPT !.studentSubmissions =
        [s \in DOMAIN @ |->
            IF @[s].hasGrades /\ Len(repo.questions) > 0
            THEN [@[s] EXCEPT !.grades =
                     withGradeEntry(@, LeafItems(repo.questions)[1].id)]
            ELSE @[s]]]

\* calculateGradingStats and renderStudentExamsList hold no assignment to the
\* repository or to an object reached from it (the array that is sorted is
\* the function's own): the repository after the call is the one before it.
repositoryAfterStats(repo, parameters) == repo
repositoryAfterRender(repo, storage, selectedQuestion, selectedStudent) == repo

\* JSON.parse(JSON.stringify(x)) of the repository object: what is undefined
\* (a missing grades array, a missing comments array) is left out, and a score
\* that is missing comes back missing.
jsonGrade(g) == [g EXCEPT !.score = IF g.hasScore THEN g.score ELSE 0]
jsonStudent(student) ==
    [student EXCEPT !.grades =
        IF student.hasGrades THEN [i \in DOMAIN @ |-> jsonGrade(@[i])] ELSE <<>>]
jsonRepository(repo, cps, app) ==
    [repository |->
        [repo EXCEPT !.studentSubmissions = [s \in DOMAIN @ |-> jsonStudent(@[s])]],
     gradingCheckpoints |-> cps,
     appState |-> [app EXCEPT !.comments = IF app.hasComments THEN @ ELSE <<>>]]

\* sessionStorage.setItem('currentRepository', JSON.stringify(...)).
Stored(repo, cps, app) == [present |-> TRUE, value |-> jsonRepository(repo, cps, app)]

\* ------------------------------------------------------------------ state
VARIABLES
    call,            \* arguments of the determineCategory call under study
    ret,             \* its return value ("none" before the call)
    prev,            \* the preceding call with a lower confidence, if any
    repository,      \* the exam repository (window.currentRepository)
    localStorage,    \* the items aiConfidenceThreshold and studentScoreThreshold
    statsResult,     \* what the last calculateGradingStats call returned
    examsList,       \* what the last renderStudentExamsList call left on the page
    gradingCheckpoints,  \* window.currentRepository.gradingCheckpoints
    appState,        \* window.currentRepository.appState
    sessionStorage,  \* the item 'currentRepository', parsed
    currentStudent,  \* the student on display: an index of studentSubmissions, 0 for null
    currentQuestionId,   \* the question on display, <<>> for null
    checkpoints,     \* the module's checkpoints array, as indices of gradingCheckpoints
    overlayShown,    \* whether the checkpoints' inputs are on the page
    lastOp,          \* the handler that ran last
    steps,           \* the number of handlers run so far
    lastArgs,        \* what the handler that ran last was called with and did
    finalizeDisabled,    \* the disabled property of the finalize button
    renderedFor,     \* the loadStudentExam call that filled the checkpoints array
    currentRenderId, \* pdf-render.js: the counter of render attempts
    calls,           \* the initializePdfViewer calls, call c being render attempt c
    containers       \* the children of the page containers made so far

classifyVars == <<call, ret, prev>>
coreVars == <<repository, localStorage, statsResult, examsList>>
viewerVars == <<currentRenderId, calls, containers>>
sessionVars ==
    <<gradingCheckpoints, appState, sessionStorage, currentStudent, currentQuestionId,
      checkpoints, overlayShown, lastOp, steps, lastArgs, finalizeDisabled, renderedFor,
      currentRenderId, calls, containers>>
vars ==
    <<call, ret, prev, repository, localStorage, statsResult, examsList,
      gradingCheckpoints, appState, sessionStorage, currentStudent, currentQuestionId,
      checkpoints, overlayShown, lastOp, steps, lastArgs, finalizeDisabled, renderedFor,
      currentRenderId, calls, containers>>

NoCall ==
    [status |-> "none", globalStats |-> ZeroGlobalStats, questionStats |-> <<>>,
     parameters |-> [aiConfidenceThreshold |-> 0, studentScoreThreshold |-> 0]]

NoRender ==
    [status |-> "none", items |-> <<>>, count |-> 0,
     selectedQuestion |-> NoQuestionFilter, selectedStudent |-> NoStudentFilter,
     thresholds |-> storedThresholds(NoStorage)]

\* What the settings page may have stored.
StorageChoices ==
    [aiConfidenceThreshold : {NoItem, Item(<<0>>), Item(<<5, 0>>)},
     studentScoreThreshold : {NoItem, Item(<<0>>)}]

NoSessionItem == [present |-> FALSE, value |-> <<>>]

\* No handler arguments on record; no loadStudentExam call has rendered
\* checkpoints.
NoArgs == [studentName |-> 0, questionId |-> <<>>, status |-> 0, outcome |-> "none",
           targets |-> <<>>, viaCheckpoints |-> FALSE, marked |-> <<>>]
NotRendered == [call |-> 0, student |-> 0, questionId |-> <<>>]

\* No render attempt was made; the page holds container 0 with its overlay,
\* as the markup of the grading panel has it.
IdleViewer ==
    /\ currentRenderId = 0
    /\ calls = <<>>
    /\ containers = [k \in {0} |-> <<Overlay(0)>>]

\* No grading session: nothing on display, no handler run.
IdleSession ==
    /\ gradingCheckpoints = <<>>
    /\ appState = NoAppState
    /\ sessionStorage = NoSessionItem
    /\ currentStudent = 0
    /\ currentQuestionId = <<>>
    /\ checkpoints = <<>>
    /\ overlayShown = FALSE
    /\ lastOp = "none"
    /\ steps = 0
    /\ lastArgs = NoArgs
    /\ finalizeDisabled = TRUE
    /\ renderedFor = NotRendered
    /\ IdleViewer

\* ------------------------------------------- specification of the classifier
CallArgs ==
    [confidence : ConfidenceValues, score : ScoreValues, maxPoints : MaxPointsValues,
     manualStatus : 0..MaxManualStatus, thresholds : ThresholdPairs]

NoPrev == [called |-> FALSE, confidence |-> 0, ret |-> "none"]

ClassifyInit ==
    /\ call \in CallArgs
    /\ ret = "none"
    /\ prev = NoPrev
    /\ repository = NullRepository
    /\ localStorage = NoStorage
    /\ statsResult = NoCall
    /\ examsList = NoRender
    /\ IdleSession

\* The call itself.
Classify ==
    /\ ret = "none"
    /\ ret' = determineCategory(call.confidence, call.score, call.maxPoints,
                                call.manualStatus, call.thresholds)
    /\ UNCHANGED <<call, prev>>
    /\ UNCHANGED coreVars
    /\ UNCHANGED sessionVars

\* A second call with the same score, maxPoints, manualStatus and thresholds
\* and a confidence at least as high.
ClassifyHigher ==
    /\ ret # "none"
    /\ ~prev.called
    /\ \E c2 \in ConfidenceValues :
        /\ c2 >= call.confidence
        /\ prev' = [called |-> TRUE, confidence |-> call.confidence, ret |-> ret]
        /\ call' = [call EXCEPT !.confidence = c2]
        /\ ret' = determineCategory(c2, call.score, call.maxPoints,
                                    call.manualStatus, call.thresholds)
    /\ UNCHANGED coreVars
    /\ UNCHANGED sessionVars

ClassifyNext == Classify \/ ClassifyHigher

SpecClassify == ClassifyInit /\ [][ClassifyNext]_vars

\* ------------------------------- specification of the aggregator and the list
IdleCall ==
    [confidence |-> 0, score |-> 0, maxPoints |-> 0, manualStatus |-> 0,
     thresholds |-> [aiConfidenceThreshold |-> 0, studentScoreThreshold |-> 0]]

Init ==
    /\ call = IdleCall
    /\ ret = "none"
    /\ prev = NoPrev
    /\ repository \in Repositories
    /\ localStorage \in StorageChoices
    /\ statsResult = NoCall
    /\ examsList = NoRender
    /\ IdleSession

\* Neither call changes the repository or localStorage, so a second call
\* would only repeat what a first call can return: a behaviour makes one call.
NothingCalled == statsResult.status = "none" /\ examsList.status = "none"

\* The callers of calculateGradingStats are not part of these sources; they
\* pass the configured thresholds, the two settings getCategory reads.
CalculateGradingStats ==
    /\ NothingCalled
    /\ \E parameters \in {storedThresholds(localStorage)} :
        statsResult' = calculateGradingStats(repository, parameters)
    /\ UNCHANGED <<repository, localStorage, examsList>>
    /\ UNCHANGED classifyVars
    /\ UNCHANGED sessionVars

\* A render with the two selects holding any of their options.
RenderStudentExamsList ==
    /\ NothingCalled
    /\ \E selectedQuestion \in QuestionOptions(repository),
          selectedStudent \in StudentOptions(repository) :
        examsList' = renderStudentExamsList(repository, localStorage,
                                            selectedQuestion, selectedStudent)
    /\ UNCHANGED <<repository, localStorage, statsResult>>
    /\ UNCHANGED classifyVars
    /\ UNCHANGED sessionVars

Next == CalculateGradingStats \/ RenderStudentExamsList

Spec == Init /\ [][Next]_vars

\* -------------------------------------------- specification of a grading session
\* A session runs at most MaxSteps handlers.
MaxSteps == 4

\* The repositories a session starts from.  Shapes <<n, k>>: one standalone
\* question; one question with two subquestions; a question with one
\* subquestion and a standalone one with an empty subquestions array.  One or
\* two students, whose grade profiles follow one another from p.
SessionShapes == {<<1, 0>>, <<1, 2>>, <<2, 1>>}
SessionStudents == {1, 2}
SessionProfiles == {0, NumProfiles - 1}
SessionRepositories ==
    {MakeRepository(shape[1], shape[2], [s \in 1..m |-> (p + s - 1) % NumProfiles]) :
        shape \in SessionShapes, m \in SessionStudents, p \in SessionProfiles}

\* What the user may type into a checkpoint's score input and textarea, and
\* what the settings page may store.
ScoreInputs == {<<>>, <<0>>, <<5>>}
CommentTexts == {0, 1}
StatusChoices == {0, 1, 2}
ThresholdKeys == {"aiConfidenceThreshold", "studentScoreThreshold"}
ThresholdItems(key) ==
    IF key = "aiConfidenceThreshold" THEN {NoItem, Item(<<0>>), Item(<<5, 0>>)}
    ELSE {NoItem, Item(<<0>>)}

\* The page after loading: the repository is in session storage, the list is
\* rendered with both selects empty, no exam is on display.
SessionStart ==
    /\ call = IdleCall
    /\ ret = "none"
    /\ prev = NoPrev
    /\ repository \in SessionRepositories
    /\ localStorage = NoStorage
    /\ statsResult = NoCall
    /\ examsList = renderStudentExamsList(repository, localStorage,
                                          NoQuestionFilter, NoStudentFilter)
    /\ gradingCheckpoints = MakeCheckpoints(repository.questions)
    /\ appState = NoAppState
    /\ sessionStorage = Stored(repository, gradingCheckpoints, appState)
    /\ currentStudent = 0
    /\ currentQuestionId = <<>>
    /\ checkpoints = <<>>
    /\ overlayShown = FALSE
    /\ lastOp = "load"
    /\ steps = 0
    /\ lastArgs = NoArgs
    /\ renderedFor = NotRendered
    /\ IdleViewer

\* The finalize button starts disabled.
SessionInit == SessionStart /\ finalizeDisabled = TRUE

\* The list entries the session works on: those of the last student.
WorkedEntries ==
    {e \in 1..Len(examsList.items) :
        examsList.items[e].studentName
          = repository.studentSubmissions[Len(repository.studentSubmissions)].name}

\* One more handler runs, called with args.
StepWith(op, args) ==
    /\ steps < MaxSteps
    /\ steps' = steps + 1
    /\ lastOp' = op
    /\ lastArgs' = args

Step(op) == StepWith(op, NoArgs)

\* The settings page stores or removes a threshold.
StoreThreshold ==
    /\ Step("storeThreshold")
    /\ \E key \in ThresholdKeys : \E item \in ThresholdItems(key) :
        /\ localStorage[key] # item
        /\ localStorage' = [localStorage EXCEPT ![key] = item]
    /\ UNCHANGED <<repository, statsResult, examsList>>
    /\ UNCHANGED <<gradingCheckpoints, appState, sessionStorage, currentStudent,
                   currentQuestionId, checkpoints, overlayShown>>
    /\ UNCHANGED classifyVars
    /\ UNCHANGED viewerVars
    /\ UNCHANGED <<finalizeDisabled, renderedFor>>

\* handleFilterChange: a select is changed and the list rendered.
HandleFilterChange ==
    /\ Step("handleFilterChange")
    /\ \E selectedQuestion \in QuestionOptions(repository),
          selectedStudent \in StudentOptions(repository) :
        /\ examsList' = renderStudentExamsList(repository, localStorage,
                                               selectedQuestion, selectedStudent)
        /\ repository' = repositoryAfterRender(repository, localStorage,
                                               selectedQuestion, selectedStudent)
    /\ UNCHANGED <<localStorage, statsResult>>
    /\ UNCHANGED <<gradingCheckpoints, appState, sessionStorage, currentStudent,
                   currentQuestionId, checkpoints, overlayShown>>
    /\ UNCHANGED classifyVars
    /\ UNCHANGED viewerVars
    /\ UNCHANGED <<finalizeDisabled, renderedFor>>

\* The dashboard computes the statistics under the configured thresholds.
RefreshStats ==
    /\ Step("calculateGradingStats")
    /\ \E parameters \in {storedThresholds(localStorage)} :
        /\ statsResult' = calculateGradingStats(repository, parameters)
        /\ repository' = repositoryAfterStats(repository, parameters)
    /\ UNCHANGED <<localStorage, examsList>>
    /\ UNCHANGED <<gradingCheckpoints, appState, sessionStorage, currentStudent,
                   currentQuestionId, checkpoints, overlayShown>>
    /\ UNCHANGED classifyVars
    /\ UNCHANGED viewerVars
    /\ UNCHANGED <<finalizeDisabled, renderedFor>>

\* A click on a list entry: loadStudentExam(student, questionId), lines 47-110
\* and 996-1009.  The overlay is emptied; when the viewer comes up the
\* checkpoints of the question are rendered, when it does not the function
\* returns with the checkpoints array as it was.
LoadStudentExam ==
    /\ Step("loadStudentExam")
    /\ examsList.status = "ok"
    /\ \E e \in WorkedEntries : \E success \in BOOLEAN :
        LET s == FirstIndex({k \in 1..Len(repository.studentSubmissions) :
                    repository.studentSubmissions[k].name = examsList.items[e].studentName})
            questionId == examsList.items[e].questionId
        IN  /\ s # 0
            /\ currentStudent' = s
            /\ currentQuestionId' = questionId
            /\ overlayShown' = success
            /\ checkpoints' = IF success
                               THEN relevantCheckpoints(repository, gradingCheckpoints,
                                                        questionId)
                               ELSE checkpoints
            /\ renderedFor' = IF success
                               THEN [call |-> 0, student |-> s, questionId |-> questionId]
                               ELSE renderedFor
            /\ finalizeDisabled' =
                   IF success
                   THEN disabledAfterTotals(repository.studentSubmissions[s],
                                            gradingCheckpoints, checkpoints')
                   ELSE finalizeDisabled
    /\ UNCHANGED coreVars
    /\ UNCHANGED <<gradingCheckpoints, appState, sessionStorage>>
    /\ UNCHANGED classifyVars
    /\ UNCHANGED viewerVars

\* window.handleScoreChange(input, qId) from the input of a rendered
\* checkpoint, with saveRepositoryState: lines 396-419.
HandleScoreChange ==
    /\ Step("handleScoreChange")
    /\ overlayShown
    /\ \E c \in 1..Len(checkpoints) : \E val \in ScoreInputs :
        LET qId == gradingCheckpoints[checkpoints[c]].questionId
            after == [repository EXCEPT !.studentSubmissions[currentStudent] =
                         handleScoreChange(@, val, qId)]
        IN  /\ repository' = after
            /\ sessionStorage' =
                   IF repository.studentSubmissions[currentStudent].hasGrades
                   THEN Stored(after, gradingCheckpoints, appState)
                   ELSE sessionStorage
            /\ finalizeDisabled' =
                   disabledAfterTotals(after.studentSubmissions[currentStudent],
                                       gradingCheckpoints, checkpoints)
    /\ UNCHANGED <<localStorage, statsResult, examsList>>
    /\ UNCHANGED <<gradingCheckpoints, appState, currentStudent, currentQuestionId,
                   checkpoints, overlayShown, renderedFor>>
    /\ UNCHANGED classifyVars
    /\ UNCHANGED viewerVars

\* The input listener of a rendered checkpoint's textarea: lines 300-310.
HandleCommentInput ==
    /\ Step("handleCommentInput")
    /\ overlayShown
    /\ \E c \in 1..Len(checkpoints) : \E text \in CommentTexts :
        LET qId == gradingCheckpoints[checkpoints[c]].questionId
            after == [repository EXCEPT !.studentSubmissions[currentStudent] =
                         handleCommentInput(@, text, qId)]
        IN  /\ repository' = after
            /\ sessionStorage' =
                   IF repository.studentSubmissions[currentStudent].hasGrades
                   THEN Stored(after, gradingCheckpoints, appState)
                   ELSE sessionStorage
    /\ UNCHANGED <<localStorage, statsResult, examsList>>
    /\ UNCHANGED <<gradingCheckpoints, appState, currentStudent, currentQuestionId,
                   checkpoints, overlayShown>>
    /\ UNCHANGED classifyVars
    /\ UNCHANGED viewerVars
    /\ UNCHANGED <<finalizeDisabled, renderedFor>>

\* updateManualGradingStatus for a list entry (its context menu) and a status:
\* lines 1067-1101, the save and the render included.
UpdateManualGradingStatus ==
    /\ examsList.status = "ok"
    /\ \E e \in WorkedEntries : \E status \in StatusChoices :
        LET r == updateManualGradingStatus(repository, examsList.items[e].studentName,
                                           examsList.items[e].questionId, status)
        IN  /\ StepWith("updateManualGradingStatus",
                        [NoArgs EXCEPT !.studentName = examsList.items[e].studentName,
                                       !.questionId = examsList.items[e].questionId,
                                       !.status = status,
                                       !.outcome = r.outcome,
                                       !.targets = statusTargets(repository,
                                                       examsList.items[e].questionId)])
            /\ repository' = r.repository
            /\ sessionStorage' =
                   IF r.outcome = "done"
                   THEN Stored(r.repository, gradingCheckpoints, appState)
                   ELSE sessionStorage
            /\ examsList' =
                   IF r.outcome = "done"
                   THEN renderStudentExamsList(r.repository, localStorage,
                                               examsList.selectedQuestion,
                                               examsList.selectedStudent)
                   ELSE examsList
    /\ UNCHANGED <<localStorage, statsResult>>
    /\ UNCHANGED <<gradingCheckpoints, appState, currentStudent, currentQuestionId,
                   checkpoints, overlayShown>>
    /\ UNCHANGED classifyVars
    /\ UNCHANGED viewerVars
    /\ UNCHANGED <<finalizeDisabled, renderedFor>>

\* The grading of exams: loading one, scoring and commenting its checkpoints,
\* setting the manual status of list entries.
SessionNext ==
    \/ LoadStudentExam
    \/ HandleScoreChange
    \/ HandleCommentInput
    \/ UpdateManualGradingStatus

SpecSession == SessionInit /\ [][SessionNext]_vars

\* ------------------------------------- specification of the session's storage
\* The comment bubbles of the exam on display, as indices of appState.comments.
ShownComments ==
    {i \in 1..Len(appState.comments) :
        /\ overlayShown
        /\ appState.comments[i].studentId = repository.studentSubmissions[currentStudent].id
        /\ appState.comments[i].questionId = currentQuestionId}

\* Where a drag may end, what may be typed into a comment bubble.
DragPositions == {1}
BubbleTexts == {1}

\* A checkpoint is dragged by its handle and dropped: startDrag, onDrag and
\* stopDrag, lines 332-381.  onDrag writes the position into the checkpoint
\* of the repository; stopDrag only removes the listeners.
DragCheckpoint ==
    /\ Step("dragCheckpoint")
    /\ overlayShown
    /\ \E c \in 1..Len(checkpoints) : \E position \in DragPositions :
        gradingCheckpoints' = [gradingCheckpoints EXCEPT ![checkpoints[c]].position = position]
    /\ UNCHANGED coreVars
    /\ UNCHANGED <<appState, sessionStorage, currentStudent, currentQuestionId,
                   checkpoints, overlayShown>>
    /\ UNCHANGED classifyVars
    /\ UNCHANGED viewerVars
    /\ UNCHANGED <<finalizeDisabled, renderedFor>>

\* The click listener of add-comment-btn: lines 652-666.
AddComment ==
    /\ Step("addComment")
    /\ currentStudent # 0
    /\ currentQuestionId # <<>>
    /\ LET newComment == [studentId |-> repository.studentSubmissions[currentStudent].id,
                          questionId |-> currentQuestionId, text |-> 0, position |-> 0]
           after == [appState EXCEPT !.hasComments = TRUE,
                                     !.comments = Append(@, newComment)]
       IN  /\ appState' = after
           /\ sessionStorage' = Stored(repository, gradingCheckpoints, after)
    /\ UNCHANGED coreVars
    /\ UNCHANGED <<gradingCheckpoints, currentStudent, currentQuestionId,
                   checkpoints, overlayShown>>
    /\ UNCHANGED classifyVars
    /\ UNCHANGED viewerVars
    /\ UNCHANGED <<finalizeDisabled, renderedFor>>

\* The input listener of a comment bubble's textarea: lines 591-594.
EditComment ==
    /\ Step("editComment")
    /\ \E i \in ShownComments : \E text \in BubbleTexts :
        LET after == [appState EXCEPT !.comments[i].text = text]
        IN  /\ appState' = after
            /\ sessionStorage' = Stored(repository, gradingCheckpoints, after)
    /\ UNCHANGED coreVars
    /\ UNCHANGED <<gradingCheckpoints, currentStudent, currentQuestionId,
                   checkpoints, overlayShown>>
    /\ UNCHANGED classifyVars
    /\ UNCHANGED viewerVars
    /\ UNCHANGED <<finalizeDisabled, renderedFor>>

\* The click listener of a comment bubble's delete button: lines 596-603.
DeleteComment ==
    /\ Step("deleteComment")
    /\ \E i \in ShownComments :
        LET after == [appState EXCEPT !.comments =
                         SubSeq(@, 1, i - 1) \o SubSeq(@, i + 1, Len(@))]
        IN  /\ appState' = after
            /\ sessionStorage' = Stored(repository, gradingCheckpoints, after)
    /\ UNCHANGED coreVars
    /\ UNCHANGED <<gradingCheckpoints, currentStudent, currentQuestionId,
                   checkpoints, overlayShown>>
    /\ UNCHANGED classifyVars
    /\ UNCHANGED viewerVars
    /\ UNCHANGED <<finalizeDisabled, renderedFor>>

\* A comment bubble is dragged and dropped: startDragComment, lines 611-645;
\* stopDragComment saves.
DragComment ==
    /\ Step("dragComment")
    /\ \E i \in ShownComments : \E position \in DragPositions :
        LET after == [appState EXCEPT !.comments[i].position = position]
        IN  /\ appState' = after
            /\ sessionStorage' = Stored(repository, gradingCheckpoints, after)
    /\ UNCHANGED coreVars
    /\ UNCHANGED <<gradingCheckpoints, currentStudent, currentQuestionId,
                   checkpoints, overlayShown>>
    /\ UNCHANGED classifyVars
    /\ UNCHANGED viewerVars
    /\ UNCHANGED <<finalizeDisabled, renderedFor>>

\* createBroadcast(broadcastData): the new broadcast goes to the front of
\* appState.broadcasts and is returned; nothing is saved.  Ids come from the
\* clock: the model numbers the broadcasts.
CreateBroadcast ==
    /\ Step("createBroadcast")
    /\ LET newBroadcast == [id |-> Len(appState.broadcasts) + 1,
                            archived |-> FALSE, dismissed |-> FALSE]
       IN  appState' = [appState EXCEPT !.broadcasts = <<newBroadcast>> \o @]
    /\ UNCHANGED coreVars
    /\ UNCHANGED <<gradingCheckpoints, sessionStorage, currentStudent, currentQuestionId,
                   checkpoints, overlayShown>>
    /\ UNCHANGED classifyVars
    /\ UNCHANGED viewerVars
    /\ UNCHANGED <<finalizeDisabled, renderedFor>>

\* updateBroadcastArchivedStatus(broadcastId, isArchived) from the archive
\* and unarchive buttons of a broadcast.
UpdateBroadcastArchivedStatus ==
    /\ Step("updateBroadcastArchivedStatus")
    /\ \E b \in 1..Len(appState.broadcasts) :
        LET after == [appState EXCEPT !.broadcasts[b].archived = ~@]
        IN  /\ appState' = after
            /\ sessionStorage' = Stored(repository, gradingCheckpoints, after)
    /\ UNCHANGED coreVars
    /\ UNCHANGED <<gradingCheckpoints, currentStudent, currentQuestionId,
                   checkpoints, overlayShown>>
    /\ UNCHANGED classifyVars
    /\ UNCHANGED viewerVars
    /\ UNCHANGED <<finalizeDisabled, renderedFor>>

\* updateBroadcastDismissedStatus(broadcastId, true) from the dismiss button
\* of a live broadcast.
UpdateBroadcastDismissedStatus ==
    /\ Step("updateBroadcastDismissedStatus")
    /\ \E b \in 1..Len(appState.broadcasts) :
        /\ ~appState.broadcasts[b].archived
        /\ ~appState.broadcasts[b].dismissed
        /\ LET after == [appState EXCEPT !.broadcasts[b].dismissed = TRUE]
           IN  /\ appState' = after
               /\ sessionStorage' = Stored(repository, gradingCheckpoints, after)
    /\ UNCHANGED coreVars
    /\ UNCHANGED <<gradingCheckpoints, currentStudent, currentQuestionId,
                   checkpoints, overlayShown>>
    /\ UNCHANGED classifyVars
    /\ UNCHANGED viewerVars
    /\ UNCHANGED <<finalizeDisabled, renderedFor>>

\* Every operation of a session that writes to the repository.
MirrorNext ==
    \/ LoadStudentExam
    \/ HandleScoreChange
    \/ HandleCommentInput
    \/ UpdateManualGradingStatus
    \/ DragCheckpoint
    \/ AddComment
    \/ EditComment
    \/ DeleteComment
    \/ DragComment
    \/ CreateBroadcast
    \/ UpdateBroadcastArchivedStatus
    \/ UpdateBroadcastDismissedStatus

SpecMirror == SessionInit /\ [][MirrorNext]_vars

\* The settings and the views computed under them: thresholds are stored, the
\* list is rendered, the statistics are computed.
SettingsNext ==
    \/ StoreThreshold
    \/ HandleFilterChange
    \/ RefreshStats

SpecSettings == SessionInit /\ [][SettingsNext]_vars

\* ------------------------------------------- specification of the PDF viewer
\* initializePdfViewer (pdf-render.js) is an async function: a call runs up to
\* its next await in one step and is resumed, in a step of its own, when the
\* promise it awaits settles.  Calls awaiting at the same time are resumed in
\* any order.  pdf.js is loaded and the page holds a page container.
MaxCalls == 2
MaxPages == 2

\* What a caller passes as pageToShow: nothing, or the first page.
PagesToShow == {0, 1}

NoLoad == [isLoad |-> FALSE, student |-> 0, questionId |-> <<>>]

\* A call of initializePdfViewer that has reached its first await: pc is the
\* await it is suspended at, ret what it has returned ("pending" until then),
\* loaded whether its document has come, latest the value of currentRenderId
\* when it returned, load the loadStudentExam call that awaits it, if any.
NewCall(container, pageToShow, load) ==
    [pc |-> "getDocument", ret |-> "pending", container |-> container,
     pageToShow |-> pageToShow, loaded |-> FALSE, numPages |-> 0, pageNum |-> 0,
     arrows |-> FALSE, timer |-> "none", latest |-> 0, load |-> load]

\* Mutant of superseded: a call never takes itself for superseded.
superseded_never(myRenderId, current) == FALSE

\* myRenderId !== currentRenderId: lines 37, 54 and 102.
superseded(myRenderId, current) == myRenderId # current

\* The container on the page: the one made last.
pageContainer == CHOOSE k \in DOMAIN containers : \A j \in DOMAIN containers : j <= k

\* pdfPageContainer.insertBefore(pageWrapper, globalOverlay): line 91.  at is
\* the place of globalOverlay among the children, 0 when it is not one of
\* them, and then insertBefore throws a NotFoundError.
overlayAt(children, c) ==
    FirstIndex({i \in 1..Len(children) : children[i] = Overlay(c)})
insertBefore(children, wrapper, at) ==
    SubSeq(children, 1, at - 1) \o <<wrapper>> \o SubSeq(children, at, Len(children))

\* pdfPageContainer.querySelector(`.page-wrapper[data-page-number="n"]`).
hasWrapper(children, n) ==
    \E i \in 1..Len(children) : children[i].kind = "page" /\ children[i].page = n

\* Call c returns r.
Settle(c, r) ==
    [calls EXCEPT ![c].pc = "done", ![c].ret = r, ![c].latest = currentRenderId]

\* A step of the viewer is no handler of the session.
ViewerStep(op) ==
    /\ lastOp' = op
    /\ lastArgs' = NoArgs
    /\ UNCHANGED steps

\* Mutant of loadAborted: only the value false aborts the load.
loadAborted_onFalseOnly(r) == r = "false"

\* if (!success) return;  of loadStudentExam: line 92.
loadAborted(r) == r # "true"

\* The rest of loadStudentExam, lines 92-109, resumed with what its viewer
\* call c returned: renderGradingCheckpoints, renderComments,
\* setupNavigationCircles and updateTotalScoreDisplay.  It follows the return
\* of the viewer in the same turn of the event loop.
ResumeLoad(c, r) ==
    IF calls[c].load.isLoad /\ ~loadAborted(r)
    THEN /\ checkpoints' = relevantCheckpoints(repository, gradingCheckpoints,
                                               calls[c].load.questionId)
         /\ overlayShown' = TRUE
         /\ renderedFor' = [call |-> c, student |-> currentStudent,
                            questionId |-> calls[c].load.questionId]
         /\ finalizeDisabled' =
                disabledAfterTotals(repository.studentSubmissions[currentStudent],
                                    gradingCheckpoints, checkpoints')
    ELSE UNCHANGED <<checkpoints, overlayShown, renderedFor, finalizeDisabled>>

ViewerFrame ==
    /\ UNCHANGED coreVars
    /\ UNCHANGED classifyVars
    /\ UNCHANGED <<gradingCheckpoints, appState, sessionStorage, currentStudent,
                   currentQuestionId>>

\* initializePdfViewer(pdfUrl, pageToShow) up to its first await, called on
\* the container of the page by a caller other than loadStudentExam: lines
\* 12-34.
StartViewer ==
    /\ currentRenderId < MaxCalls
    /\ \E pageToShow \in PagesToShow :
        /\ currentRenderId' = currentRenderId + 1
        /\ calls' = Append(calls, NewCall(pageContainer, pageToShow, NoLoad))
    /\ ViewerStep("initializePdfViewer")
    /\ UNCHANGED containers
    /\ UNCHANGED <<checkpoints, overlayShown, renderedFor, finalizeDisabled>>
    /\ ViewerFrame

\* getDocument is fulfilled: lines 34-56, to the await of the first page or
\* to the return of a superseded call.
DocumentLoaded ==
    /\ \E c \in 1..Len(calls) : \E numPages \in 1..MaxPages :
        /\ calls[c].pc = "getDocument"
        /\ IF superseded(c, currentRenderId)
           THEN /\ calls' = [Settle(c, "undefined") EXCEPT ![c].loaded = TRUE,
                                                           ![c].numPages = numPages]
                /\ UNCHANGED containers
                /\ ResumeLoad(c, "undefined")
           ELSE /\ calls' = [calls EXCEPT ![c].pc = "getPage", ![c].loaded = TRUE,
                                          ![c].numPages = numPages, ![c].pageNum = 1]
                /\ containers' = [containers EXCEPT ![calls[c].container] = <<Overlay(c)>>]
                /\ UNCHANGED <<checkpoints, overlayShown, renderedFor, finalizeDisabled>>
    /\ ViewerStep("documentLoaded")
    /\ UNCHANGED currentRenderId
    /\ ViewerFrame

\* getDocument is rejected: the catch clause, lines 125-128.
DocumentFailed ==
    /\ \E c \in 1..Len(calls) :
        /\ calls[c].pc = "getDocument"
        /\ calls' = Settle(c, "false")
        /\ ResumeLoad(c, "false")
    /\ ViewerStep("documentFailed")
    /\ UNCHANGED <<currentRenderId, containers>>
    /\ ViewerFrame

\* getPage is fulfilled: lines 56-98, to the await of the page's rendering
\* or, insertBefore throwing, to the catch clause.
PageFetched ==
    /\ \E c \in 1..Len(calls) :
        LET children == containers[calls[c].container]
            at == overlayAt(children, c)
        IN  /\ calls[c].pc = "getPage"
            /\ IF at = 0
               THEN /\ calls' = Settle(c, "false")
                    /\ UNCHANGED containers
                    /\ ResumeLoad(c, "false")
               ELSE /\ calls' = [calls EXCEPT ![c].pc = "render"]
                    /\ containers' =
                           [containers EXCEPT ![calls[c].container] =
                               insertBefore(children, PageWrapper(c, calls[c].pageNum), at)]
                    /\ UNCHANGED <<checkpoints, overlayShown, renderedFor,
                                   finalizeDisabled>>
    /\ ViewerStep("pageFetched")
    /\ UNCHANGED currentRenderId
    /\ ViewerFrame

\* page.render is fulfilled: lines 98-123 and 52-56, to the await of the next
\* page, to the return of a superseded call or to the final updates of the
\* page and the return of true.
PageRendered ==
    /\ \E c \in 1..Len(calls) :
        /\ calls[c].pc = "render"
        /\ IF calls[c].pageNum < calls[c].numPages
           THEN IF superseded(c, currentRenderId)
                THEN /\ calls' = Settle(c, "undefined")
                     /\ ResumeLoad(c, "undefined")
                ELSE /\ calls' = [calls EXCEPT ![c].pc = "getPage", ![c].pageNum = @ + 1]
                     /\ UNCHANGED <<checkpoints, overlayShown, renderedFor,
                                    finalizeDisabled>>
           ELSE IF superseded(c, currentRenderId)
                THEN /\ calls' = Settle(c, "false")
                     /\ ResumeLoad(c, "false")
                ELSE /\ calls' =
                           [Settle(c, "true") EXCEPT
                               ![c].arrows = TRUE,
                               ![c].timer =
                                   IF calls[c].pageToShow # 0
                                      /\ hasWrapper(containers[calls[c].container],
                                                    calls[c].pageToShow)
                                   THEN "set" ELSE "none"]
                     /\ ResumeLoad(c, "true")
    /\ ViewerStep("pageRendered")
    /\ UNCHANGED <<currentRenderId, containers>>
    /\ ViewerFrame

\* The timer of line 115 fires: the panel is scrolled to the page.
ScrollTimer ==
    /\ \E c \in 1..Len(calls) :
        /\ calls[c].timer = "set"
        /\ calls' = [calls EXCEPT ![c].timer = "fired"]
    /\ ViewerStep("scrollTimer")
    /\ UNCHANGED <<currentRenderId, containers>>
    /\ UNCHANGED <<checkpoints, overlayShown, renderedFor, finalizeDisabled>>
    /\ ViewerFrame

\* The page with its container and no repository.
ViewerInit ==
    /\ call = IdleCall
    /\ ret = "none"
    /\ prev = NoPrev
    /\ repository = NullRepository
    /\ localStorage = NoStorage
    /\ statsResult = NoCall
    /\ examsList = NoRender
    /\ IdleSession

ViewerNext ==
    \/ StartViewer
    \/ DocumentLoaded
    \/ DocumentFailed
    \/ PageFetched
    \/ PageRendered
    \/ ScrollTimer

SpecViewer == ViewerInit /\ [][ViewerNext]_vars

\* ------------------------------------------- specification of an exam on display
\* The calls of updateManualGradingStatus(repository, name, id, 1) the
\* finalize handler makes for ids[i], ids[i + 1], ...: lines 544-546.  A call
\* that throws ends the handler; saved tells whether a call got to its save.
RECURSIVE finalizeCalls(_, _, _, _, _)
finalizeCalls(repo, name, ids, i, saved) ==
    IF i > Len(ids) THEN [outcome |-> "done", repository |-> repo, saved |-> saved]
    ELSE LET r == updateManualGradingStatus(repo, name, ids[i], 1)
         IN  IF r.outcome = "threw"
             THEN [outcome |-> "threw", repository |-> repo, saved |-> saved]
             ELSE finalizeCalls(r.repository, name, ids, i + 1,
                                saved \/ r.outcome = "done")

RECURSIVE targetsOf(_, _, _)
targetsOf(repo, ids, i) ==
    IF i > Len(ids) THEN <<>>
    ELSE statusTargets(repo, ids[i]) \o targetsOf(repo, ids, i + 1)

\* The question ids the finalize handler passes on: those of the checkpoints
\* array or, the array being empty, currentQuestionId (lines 543-550).
finalizeIds(cps, shown, questionId) ==
    IF Len(shown) > 0 THEN [c \in 1..Len(shown) |-> cps[shown[c]].questionId]
    ELSE <<questionId>>

\* The list entries an exam is loaded from.
ExamEntries == 1..Len(examsList.items)

\* A click on a list entry: loadStudentExam(student, questionId) up to its
\* await of the viewer, lines 47-91 and 996-1009.  The grading panel gets a
\* new page container; the checkpoints array and the button stay as they are.
\* No question of the repositories has pages, so pageNumber stays null.
StartLoad ==
    /\ examsList.status = "ok"
    /\ currentRenderId < MaxCalls
    /\ \E e \in ExamEntries :
        LET s == FirstIndex({k \in 1..Len(repository.studentSubmissions) :
                    repository.studentSubmissions[k].name = examsList.items[e].studentName})
            questionId == examsList.items[e].questionId
            c == currentRenderId + 1
        IN  /\ s # 0
            /\ StepWith("loadStudentExam",
                        [NoArgs EXCEPT !.studentName = examsList.items[e].studentName,
                                       !.questionId = questionId])
            /\ currentStudent' = s
            /\ currentQuestionId' = questionId
            /\ overlayShown' = FALSE
            /\ containers' = [k \in (DOMAIN containers) \cup {c} |->
                                 IF k = c THEN <<Overlay(0)>> ELSE containers[k]]
            /\ currentRenderId' = c
            /\ calls' = Append(calls,
                   NewCall(c, 0,
                           [isLoad |-> TRUE, student |-> s, questionId |-> questionId]))
    /\ UNCHANGED coreVars
    /\ UNCHANGED <<gradingCheckpoints, appState, sessionStorage>>
    /\ UNCHANGED <<checkpoints, renderedFor, finalizeDisabled>>
    /\ UNCHANGED classifyVars

\* The onclick of the finalize button: lines 539-555.  With no student on
\* display currentStudent.name throws.
Finalize ==
    /\ ~finalizeDisabled
    /\ IF currentStudent = 0
       THEN /\ StepWith("finalize", [NoArgs EXCEPT !.outcome = "threw"])
            /\ UNCHANGED <<repository, sessionStorage, examsList, finalizeDisabled>>
       ELSE LET name == repository.studentSubmissions[currentStudent].name
                ids == finalizeIds(gradingCheckpoints, checkpoints, currentQuestionId)
                r == finalizeCalls(repository, name, ids, 1, FALSE)
            IN  /\ StepWith("finalize",
                            [NoArgs EXCEPT !.studentName = name,
                                           !.questionId = currentQuestionId,
                                           !.status = 1,
                                           !.outcome = r.outcome,
                                           !.targets = targetsOf(repository, ids, 1),
                                           !.viaCheckpoints = (Len(checkpoints) > 0),
                                           !.marked = ids])
                /\ repository' = r.repository
                /\ sessionStorage' =
                       IF r.saved THEN Stored(r.repository, gradingCheckpoints, appState)
                       ELSE sessionStorage
                /\ examsList' =
                       IF r.saved
                       THEN renderStudentExamsList(r.repository, localStorage,
                                                   examsList.selectedQuestion,
                                                   examsList.selectedStudent)
                       ELSE examsList
                /\ finalizeDisabled' = (r.outcome = "done" \/ finalizeDisabled)
    /\ UNCHANGED <<localStorage, statsResult>>
    /\ UNCHANGED <<gradingCheckpoints, appState, currentStudent, currentQuestionId,
                   checkpoints, overlayShown, renderedFor>>
    /\ UNCHANGED classifyVars
    /\ UNCHANGED viewerVars

\* The repositories an exam is loaded from: those of the session that have a
\* grade with manualStatus 2 and an item without a checkpoint of its own or
\* with an empty subquestions array.
ExamShapes == {shape \in SessionShapes : shape[2] > 0}
ExamRepositories ==
    {MakeRepository(shape[1], shape[2], [s \in 1..m |-> (NumProfiles + s - 2) % NumProfiles]) :
        shape \in ExamShapes, m \in SessionStudents}

\* The markup of the page, which is not among the sources, decides whether
\* the finalize button starts disabled.
ExamInit ==
    /\ SessionStart
    /\ repository \in ExamRepositories
    /\ finalizeDisabled \in BOOLEAN

ExamNext ==
    \/ StartLoad
    \/ DocumentLoaded
    \/ DocumentFailed
    \/ PageFetched
    \/ PageRendered
    \/ HandleScoreChange
    \/ Finalize

SpecExam == ExamInit /\ [][ExamNext]_vars

\* The loads alone: the user only clicks list entries, and the button, which
\* no load enables before a score is typed, starts disabled.
LoadsInit == SessionInit /\ repository \in ExamRepositories

LoadsNext ==
    \/ StartLoad
    \/ DocumentLoaded
    \/ DocumentFailed
    \/ PageFetched
    \/ PageRendered

SpecLoads == LoadsInit /\ [][LoadsNext]_vars

\* ------------------------------------------------------------------ claims
\* C1: manualStatus = 1 always yields gradedOnce and manualStatus >= 2 always
\* yields graded2Plus, whatever confidence, score, maxPoints and thresholds.
C1_ManualStatusPrecedence ==
    ret # "none" =>
        /\ (call.manualStatus = 1 => ret = "gradedOnce")
        /\ (call.manualStatus >= 2 => ret = "graded2Plus")

\* A call with manualStatus 3, whose AI fields alone would say aiLow, has
\* returned graded2Plus.
C1_Witness ==
    /\ ret = "graded2Plus"
    /\ call.manualStatus = 3
    /\ call.confidence = 0
    /\ call.thresholds.aiConfidenceThreshold = 50

\* C2: with manualStatus = 0 the tests apply in order, first match wins:
\* aiLow exactly when confidence < aiConfidenceThreshold; otherwise lowScore
\* exactly when score / maxPoints * 100 (0 when maxPoints is 0) is below
\* studentScoreThreshold; otherwise aiHigh.  Low confidence wins over low score.
C2_ScoreBelow ==
    IF call.maxPoints > 0
    THEN call.score * 100 < call.thresholds.studentScoreThreshold * call.maxPoints
    ELSE 0 < call.thresholds.studentScoreThreshold

C2_StrictOrder ==
    (ret # "none" /\ call.manualStatus = 0) =>
        /\ (ret = "aiLow" <=> call.confidence < call.thresholds.aiConfidenceThreshold)
        /\ (ret = "lowScore" <=>
                (call.confidence >= call.thresholds.aiConfidenceThreshold
                 /\ C2_ScoreBelow))
        /\ (ret = "aiHigh" <=>
                (call.confidence >= call.thresholds.aiConfidenceThreshold
                 /\ ~C2_ScoreBelow))

\* A low confidence together with a low score has been classified aiLow.
C2_Witness ==
    /\ ret = "aiLow"
    /\ call.manualStatus = 0
    /\ call.confidence = 49
    /\ call.thresholds.aiConfidenceThreshold = 50
    /\ call.score = 2
    /\ call.maxPoints = 10
    /\ call.thresholds.studentScoreThreshold = 50

\* C3: ties pass.  With manualStatus = 0, confidence equal to the confidence
\* threshold never yields aiLow, and, confidence passing, a score percentage
\* equal to the score threshold never yields lowScore.
C3_TiesPass ==
    (ret # "none" /\ call.manualStatus = 0) =>
        /\ (call.confidence = call.thresholds.aiConfidenceThreshold => ret # "aiLow")
        /\ (/\ call.confidence >= call.thresholds.aiConfidenceThreshold
            /\ call.maxPoints > 0
            /\ call.score * 100 = call.thresholds.studentScoreThreshold * call.maxPoints
            => ret = "aiHigh")
        /\ (/\ call.confidence >= call.thresholds.aiConfidenceThreshold
            /\ call.maxPoints = 0
            /\ call.thresholds.studentScoreThreshold = 0
            => ret = "aiHigh")

\* Both ties at once: confidence 50 at threshold 50, 5 of 10 points at 50.
C3_Witness ==
    /\ ret = "aiHigh"
    /\ call.manualStatus = 0
    /\ call.confidence = 50
    /\ call.thresholds.aiConfidenceThreshold = 50
    /\ call.score = 5
    /\ call.maxPoints = 10
    /\ call.thresholds.studentScoreThreshold = 50

\* C4: monotonicity in confidence.  For fixed score, maxPoints, thresholds and
\* manualStatus = 0, if the call at the lower confidence is not aiLow, the call
\* at the higher confidence returns the same category (so not aiLow either).
C4_Monotone ==
    (prev.called /\ call.manualStatus = 0 /\ prev.ret # "aiLow") =>
        (ret # "aiLow" /\ ret = prev.ret)

\* The confidence was raised from 50 to 100 on a grade that was lowScore.
C4_Witness ==
    /\ prev.called
    /\ call.manualStatus = 0
    /\ prev.confidence = 50
    /\ call.confidence = MaxConfidence
    /\ prev.ret = "lowScore"
    /\ ret = "lowScore"
\* ---------------------------------------------- claims about the aggregator
NumQuestions == Len(repository.questions)
NumStudents == Len(repository.studentSubmissions)
StatsReturned == statsResult.status = "ok"

\* The entries of a student's grades array for an item id.
GradeEntries(student, id) ==
    IF student.hasGrades
    THEN {i \in 1..Len(student.grades) : student.grades[i].questionId = id}
    ELSE {}

\* The (leaf item index, student index) pairs of top-level question q.
PairsOf(q) ==
    (1..Len(subItems(repository.questions[q]))) \X (1..NumStudents)

\* The category the specification gives pair <<j, s>> of question q under
\* thresholds t: aiLow without a grade entry, else the classifier's.
SpecCategory(q, pair, t) ==
    LET item == subItems(repository.questions[q])[pair[1]]
        student == repository.studentSubmissions[pair[2]]
        entries == GradeEntries(student, item.id)
    IN  IF entries = {} THEN "aiLow"
        ELSE LET g == student.grades[CHOOSE i \in entries : \A k \in entries : i <= k]
             IN  determineCategory(g.confidence, g.aiSuggestedScore, item.points,
                                   g.manualStatus, t)

\* The categories of all pairs under thresholds t, and the number of pairs of
\* question q that cats puts in category c.
SpecCategories(t) ==
    [q \in 1..NumQuestions |-> [pair \in PairsOf(q) |-> SpecCategory(q, pair, t)]]
CountOf(cats, q, c) == Cardinality({pair \in DOMAIN cats[q] : cats[q][pair] = c})

\* C5: with at least one top-level question and at least one student,
\* globalStats.totalWeight is 100, whatever the grades and the thresholds.
C5_WeightConservation ==
    (StatsReturned /\ NumQuestions >= 1 /\ NumStudents >= 1) =>
        statsResult.globalStats.totalWeight = RatInt(100)

\* Stats of two questions, one of them a parent of two, and two students of
\* whom one lacks a grade for some item.
C5_Witness ==
    /\ StatsReturned
    /\ NumQuestions = 2
    /\ NumStudents = 2
    /\ \E q \in 1..NumQuestions : Len(subItems(repository.questions[q])) = 2
    /\ \E q \in 1..NumQuestions : \E pair \in PairsOf(q) :
        GradeEntries(repository.studentSubmissions[pair[2]],
                     subItems(repository.questions[q])[pair[1]].id) = {}
    /\ statsResult.globalStats.totalWeight = RatInt(100)

\* C6: for every top-level question with totalCount > 0 the five category
\* percentages of its questionStats entry sum to 100.
C6_Sum(qs) ==
    RatAdd(qs.aiHigh, RatAdd(qs.aiLow, RatAdd(qs.lowScore,
        RatAdd(qs.gradedOnce, qs.graded2Plus))))

C6_PercentagesSumTo100 ==
    StatsReturned =>
        \A id \in DOMAIN statsResult.questionStats :
            statsResult.questionStats[id].totalCount > 0 =>
                C6_Sum(statsResult.questionStats[id]) = RatInt(100)

\* A parent question whose pairs fall into three categories at least.
C6_Witness ==
    /\ StatsReturned
    /\ \E id \in DOMAIN statsResult.questionStats :
        LET qs == statsResult.questionStats[id]
        IN  /\ qs.totalCount = 4
            /\ Cardinality({c \in Categories : qs[c] # RatInt(0)}) >= 3

\* C7: questionStats[q][c] is 100 * (pairs of q classified c) / (leaf items of
\* q * students), the leaf items being the subquestions of q if it has any and
\* q itself otherwise.
C7_QuestionPercentages ==
    (StatsReturned /\ NumStudents >= 1) =>
        LET cats == SpecCategories(statsResult.parameters)
        IN  \A q \in 1..NumQuestions : \A c \in Categories :
                statsResult.questionStats[repository.questions[q].id][c]
                  = Rat(100 * CountOf(cats, q, c),
                        Len(subItems(repository.questions[q])) * NumStudents)

\* The example of the specification: one standalone question, one aiHigh
\* student and one student without a grade give aiHigh = 50 and aiLow = 50.
C7_Witness ==
    /\ StatsReturned
    /\ NumQuestions = 1
    /\ ~isParent(repository.questions[1])
    /\ NumStudents = 2
    /\ \E s \in 1..2 : GradeEntries(repository.studentSubmissions[s], <<1>>) = {}
    /\ statsResult.questionStats[<<1>>].aiHigh = RatInt(50)
    /\ statsResult.questionStats[<<1>>].aiLow = RatInt(50)

\* C8: global weights ignore point values.  Every top-level question
\* contributes 100 / N in all, and each pair under a question with k leaf
\* items adds 100 / (N * k * M) to globalStats of its category.
RECURSIVE C8_Expected(_, _, _)
C8_Expected(cats, q, c) ==
    IF q > NumQuestions THEN RatInt(0)
    ELSE RatAdd(Rat(100 * CountOf(cats, q, c),
                    NumQuestions * Len(subItems(repository.questions[q])) * NumStudents),
                C8_Expected(cats, q + 1, c))

C8_EqualWeights ==
    (StatsReturned /\ NumQuestions >= 1 /\ NumStudents >= 1) =>
        LET cats == SpecCategories(statsResult.parameters)
        IN  /\ \A c \in Categories :
                statsResult.globalStats[c] = C8_Expected(cats, 1, c)
            /\ \A q \in 1..NumQuestions :
                RatMul(contribution(repository, repository.questions[q]),
                       RatInt(Cardinality(PairsOf(q)))) = Rat(100, NumQuestions)

\* Two questions of different point values and different numbers of leaf
\* items, two students.
C8_Witness ==
    /\ StatsReturned
    /\ NumQuestions = 2
    /\ NumStudents = 2
    /\ repository.questions[1].points # repository.questions[2].points
    /\ Len(subItems(repository.questions[1])) = 2
    /\ Len(subItems(repository.questions[2])) = 1
    /\ statsResult.globalStats.graded2Plus # RatInt(0)

\* ------------------------------------ claims about aggregator and list builder
ListRendered == examsList.status = "ok"

\* The leaf items (subquestions, standalone questions) of the repository.
AllLeaves == {LeafItems(repository.questions)[m] : m \in 1..Len(LeafItems(repository.questions))}

\* C9: a (student, gradable item) pair without a Grade entry is classified
\* aiLow, with confidence 0, by the aggregator and by the list builder alike,
\* for all thresholds in 0..100.
C9_MissingGradeIsAiLow ==
    /\ StatsReturned =>
        \A q \in 1..NumQuestions : \A pair \in PairsOf(q) :
            LET item == subItems(repository.questions[q])[pair[1]]
                student == repository.studentSubmissions[pair[2]]
            IN  GradeEntries(student, item.id) = {} =>
                    pairCategory(repository, item, student, statsResult.parameters) = "aiLow"
    /\ ListRendered =>
        \A e \in 1..Len(examsList.items) :
            LET entry == examsList.items[e]
            IN  (/\ \E leaf \in AllLeaves : leaf.id = entry.questionId
                 /\ GradeEntries(repository.studentSubmissions[entry.studentName],
                                 entry.questionId) = {})
                => (entry.category = 0 /\ entry.confidence = 0)

\* C10: when the repository is absent, or lacks questions, or lacks
\* studentSubmissions, the aggregator returns null and the list builder shows
\* the placeholder with count 0; neither throws.
IncompleteRepository ==
    repository.isNull \/ ~repository.hasQuestions \/ ~repository.hasStudentSubmissions

C10_MissingDataReported ==
    IncompleteRepository =>
        /\ (statsResult.status # "none" => statsResult.status = "null")
        /\ (examsList.status # "none" =>
                (examsList.status = "noData" /\ examsList.count = 0))

\* C11: with no student or no top-level question calculateGradingStats
\* returns (no division fault) with zero contributions: every globalStats
\* category and totalWeight is 0, and every question has a questionStats entry
\* with totalCount 0 and its five raw zeros, the conversion being skipped.
QuestionIds == {repository.questions[q].id : q \in 1..NumQuestions}

C11_DegenerateDivision ==
    (~IncompleteRepository /\ statsResult.status # "none"
     /\ (NumStudents = 0 \/ NumQuestions = 0)) =>
        /\ statsResult.status = "ok"
        /\ statsResult.globalStats = ZeroGlobalStats
        /\ DOMAIN statsResult.questionStats = QuestionIds
        /\ \A id \in DOMAIN statsResult.questionStats :
                statsResult.questionStats[id] = ZeroQuestionStats

\* Stats of a repository of two questions, one of them a parent, and no
\* student.
C11_Witness ==
    /\ StatsReturned
    /\ NumStudents = 0
    /\ NumQuestions = 2
    /\ isParent(repository.questions[1])
    /\ statsResult.questionStats[<<1>>].totalCount = 0
    /\ statsResult.globalStats.totalWeight = RatInt(0)

\* ------------------------------------------------ claims about the triage list
\* The entries the loops of the rendered list pushed, in emission order.
EmittedItems ==
    allItems(localStorage, repository, examsList.selectedQuestion,
             examsList.selectedStudent, 1)

Occurrences(seq, x) == Cardinality({i \in 1..Len(seq) : seq[i] = x})

\* C12: in the rendered list every entry's category is at most that of the
\* entry after it and, the categories being equal, so is its confidence; the
\* list is a permutation of the emitted entries.
C12_SortOrder ==
    ListRendered =>
        LET items == examsList.items
            emitted == EmittedItems
        IN  /\ \A i \in 1..(Len(items) - 1) :
                    /\ items[i].category <= items[i + 1].category
                    /\ (items[i].category = items[i + 1].category
                            => items[i].confidence <= items[i + 1].confidence)
            /\ Len(items) = Len(emitted)
            /\ \A x \in {emitted[i] : i \in 1..Len(emitted)} :
                    Occurrences(items, x) = Occurrences(emitted, x)

\* A list of three categories at least that was emitted out of order, two of
\* its entries sharing a category and differing in confidence.
C12_Witness ==
    /\ ListRendered
    /\ Cardinality({examsList.items[i].category : i \in 1..Len(examsList.items)}) >= 3
    /\ EmittedItems # examsList.items
    /\ \E i \in 1..(Len(examsList.items) - 1) :
            /\ examsList.items[i].category = examsList.items[i + 1].category
            /\ examsList.items[i].confidence < examsList.items[i + 1].confidence
            /\ \E m, n \in 1..Len(EmittedItems) :
                    /\ m < n
                    /\ EmittedItems[m] = examsList.items[i + 1]
                    /\ EmittedItems[n] = examsList.items[i]

\* The rank of a category: aiLow 0, lowScore 1, aiHigh 2, gradedOnce 3,
\* graded2Plus 4.
Rank(c) ==
    IF c = "aiLow" THEN 0 ELSE IF c = "lowScore" THEN 1 ELSE IF c = "aiHigh" THEN 2
    ELSE IF c = "gradedOnce" THEN 3 ELSE 4

\* The confidence and the category code the list has to show for a student
\* and a gradable item under thresholds t: those of the grade entry, those of
\* a grade of confidence 0, score 0 and manualStatus 0 where there is none.
ShownConfidence(student, item) ==
    LET entries == GradeEntries(student, item.id)
    IN  IF entries = {} THEN 0
        ELSE student.grades[CHOOSE i \in entries : \A k \in entries : i <= k].confidence

ShownCategory(student, item, t) ==
    LET entries == GradeEntries(student, item.id)
    IN  IF entries = {} THEN Rank(determineCategory(0, 0, item.points, 0, t))
        ELSE LET g == student.grades[CHOOSE i \in entries : \A k \in entries : i <= k]
             IN  Rank(determineCategory(g.confidence, g.aiSuggestedScore, item.points,
                                        g.manualStatus, t))

\* The top-level question with the given id, if any.
TopLevel(id) == {q \in 1..NumQuestions : repository.questions[q].id = id}

\* C13: the entry of a top-level question with subquestions carries the least
\* of its subquestions' category codes and the least of their confidences,
\* taken over all subquestions whatever the question filter; the entry of a
\* standalone question carries the question's own category and confidence.
C13_ParentIsWorstChild ==
    ListRendered =>
        \A e \in 1..Len(examsList.items) :
            LET entry == examsList.items[e]
                student == repository.studentSubmissions[entry.studentName]
            IN  \A q \in TopLevel(entry.questionId) :
                    LET question == repository.questions[q]
                        subs == question.subquestions
                    IN  IF Len(subs) > 0
                        THEN /\ \A j \in 1..Len(subs) :
                                    /\ entry.category
                                         <= ShownCategory(student, subs[j], examsList.thresholds)
                                    /\ entry.confidence <= ShownConfidence(student, subs[j])
                             /\ \E j \in 1..Len(subs) :
                                    entry.category
                                      = ShownCategory(student, subs[j], examsList.thresholds)
                             /\ \E j \in 1..Len(subs) :
                                    entry.confidence = ShownConfidence(student, subs[j])
                        ELSE /\ entry.category
                                  = ShownCategory(student, question, examsList.thresholds)
                             /\ entry.confidence = ShownConfidence(student, question)

\* The example of the specification with the question filter on the parent:
\* subquestions classified aiHigh (confidence 50) and lowScore (confidence
\* 90) give a parent entry of category 1 and confidence 50.
C13_Witness ==
    /\ ListRendered
    /\ examsList.selectedQuestion = <<1>>
    /\ NumQuestions >= 1
    /\ NumStudents >= 1
    /\ Len(repository.questions[1].subquestions) = 2
    /\ LET student == repository.studentSubmissions[1]
           subs == repository.questions[1].subquestions
       IN  /\ ShownCategory(student, subs[1], examsList.thresholds) = 2
           /\ ShownCategory(student, subs[2], examsList.thresholds) = 1
           /\ ShownConfidence(student, subs[1]) = 50
           /\ ShownConfidence(student, subs[2]) = 90
           /\ \E e \in 1..Len(examsList.items) :
                   /\ examsList.items[e].studentName = student.name
                   /\ examsList.items[e].questionId = <<1>>
                   /\ examsList.items[e].category = 1
                   /\ examsList.items[e].confidence = 50

\* The entries of the rendered list for a student name and a question id.
EntriesOf(name, id) ==
    {e \in 1..Len(examsList.items) :
        examsList.items[e].studentName = name /\ examsList.items[e].questionId = id}

RECURSIVE EntriesPerStudent(_)
EntriesPerStudent(q) ==
    IF q > NumQuestions THEN 0
    ELSE 1 + Len(repository.questions[q].subquestions) + EntriesPerStudent(q + 1)

\* C14: with no filter set the list holds, for every student, exactly one
\* entry per subquestion, carrying the subquestion's own category and
\* confidence, and exactly one entry per top-level question: 1 + |subquestions|
\* entries for a parent, 1 for a standalone question, and nothing else; the
\* count shown is the number of entries.
Unfiltered ==
    /\ examsList.selectedQuestion = NoQuestionFilter
    /\ examsList.selectedStudent = NoStudentFilter

C14_DualEmission ==
    (ListRendered /\ Unfiltered) =>
        /\ \A s \in 1..NumStudents : \A q \in 1..NumQuestions :
                LET student == repository.studentSubmissions[s]
                    question == repository.questions[q]
                IN  /\ Cardinality(EntriesOf(student.name, question.id)) = 1
                    /\ \A j \in 1..Len(question.subquestions) :
                            LET sub == question.subquestions[j]
                                es == EntriesOf(student.name, sub.id)
                            IN  /\ Cardinality(es) = 1
                                /\ \A e \in es :
                                    /\ examsList.items[e].category
                                         = ShownCategory(student, sub, examsList.thresholds)
                                    /\ examsList.items[e].confidence
                                         = ShownConfidence(student, sub)
        /\ Len(examsList.items) = NumStudents * EntriesPerStudent(1)
        /\ examsList.count = Len(examsList.items)

\* The example of the specification: one student, Q1 with Q1.A graded twice
\* and Q1.B without a grade gives three entries, Q1.A of category 4, Q1.B and
\* Q1 of category 0.
C14_Witness ==
    /\ ListRendered
    /\ Unfiltered
    /\ NumStudents = 1
    /\ NumQuestions = 1
    /\ examsList.count = 3
    /\ \E a, b, c \in 1..Len(examsList.items) :
            /\ examsList.items[a].questionId = <<1, 1>>
            /\ examsList.items[a].category = 4
            /\ examsList.items[b].questionId = <<1, 2>>
            /\ examsList.items[b].category = 0
            /\ examsList.items[c].questionId = <<1>>
            /\ examsList.items[c].category = 0

\* C15: with a question filter the list holds exactly the entries whose
\* questionId is the filter (a parent id gives the parent entries alone, a
\* subquestion id that subquestion's entries alone), one for each student
\* listed and such as the unfiltered list shows it; with a student filter it
\* holds entries of the student of that name only.
UnfilteredList ==
    allItems(localStorage, repository, NoQuestionFilter, NoStudentFilter, 1)

PassesFilters(entry) ==
    /\ (examsList.selectedQuestion # NoQuestionFilter
            => entry.questionId = examsList.selectedQuestion)
    /\ (examsList.selectedStudent # NoStudentFilter
            => entry.studentName = examsList.selectedStudent)

C15_FilterExact ==
    ListRendered =>
        LET items == examsList.items
            unfiltered == UnfilteredList
            passing == SelectSeq(unfiltered, PassesFilters)
        IN  /\ \A e \in 1..Len(items) : PassesFilters(items[e])
            /\ Len(items) = Len(passing)
            /\ \A x \in {passing[i] : i \in 1..Len(passing)} :
                    Occurrences(items, x) = Occurrences(passing, x)

\* The parent of two subquestions is selected, and the first of two
\* students: of the ten entries of the unfiltered list one is left.
C15_Witness ==
    /\ ListRendered
    /\ NumStudents = 2
    /\ NumQuestions = 2
    /\ examsList.selectedQuestion = <<1>>
    /\ examsList.selectedStudent = 1
    /\ Len(repository.questions[1].subquestions) = 2
    /\ Len(UnfilteredList) = 10
    /\ Len(examsList.items) = 1

\* C18: the list builder and the aggregator categorise alike.  For every
\* student and gradable leaf item the category code of the list entry is the
\* rank of the category under which calculateGradingStats counts the pair,
\* the thresholds being the same.
C18_SameCategories ==
    ListRendered =>
        \A e \in 1..Len(examsList.items) :
            LET entry == examsList.items[e]
            IN  \A leaf \in AllLeaves :
                    leaf.id = entry.questionId =>
                        entry.category
                          = Rank(pairCategory(repository, leaf,
                                              repository.studentSubmissions[entry.studentName],
                                              examsList.thresholds))

\* ------------------------------------------------ claims about the settings
\* The category code the list has to show for a student and a question id
\* under thresholds t: the least of the subquestions' codes for a question
\* with subquestions, the item's own code otherwise.
ShownEntryCategory(student, id, t) ==
    LET parents == {q \in TopLevel(id) : Len(repository.questions[q].subquestions) > 0}
    IN  IF parents # {}
        THEN LET subs == repository.questions[CHOOSE q \in parents : TRUE].subquestions
             IN  SeqMin([j \in 1..Len(subs) |-> ShownCategory(student, subs[j], t)])
        ELSE ShownCategory(student, CHOOSE leaf \in AllLeaves : leaf.id = id, t)

\* The list on the page was built by the handler that ran last.
ListJustBuilt == ListRendered /\ lastOp \in {"load", "handleFilterChange"}

\* C16: thresholds are read fresh.  A list just built classifies every entry
\* with the thresholds stored at that moment, whatever was stored during
\* earlier builds.
C16_ThresholdsReadFresh ==
    ListJustBuilt =>
        \A e \in 1..Len(examsList.items) :
            LET entry == examsList.items[e]
            IN  entry.category
                  = ShownEntryCategory(repository.studentSubmissions[entry.studentName],
                                       entry.questionId, storedThresholds(localStorage))

\* The list was built under the defaults when the page loaded; '0' was then
\* stored as aiConfidenceThreshold and the list built again, and an entry is
\* not in the category the defaults give it.
C16_Witness ==
    /\ ListJustBuilt
    /\ lastOp = "handleFilterChange"
    /\ localStorage.aiConfidenceThreshold = Item(<<0>>)
    /\ \E e \in 1..Len(examsList.items) :
            LET entry == examsList.items[e]
            IN  entry.category
                  # ShownEntryCategory(repository.studentSubmissions[entry.studentName],
                                       entry.questionId, storedThresholds(NoStorage))

C19_OneGradePerQuestion ==
    \A s \in 1..NumStudents :
        LET grades == repository.studentSubmissions[s].grades
        IN  \A i, j \in 1..Len(grades) :
                grades[i].questionId = grades[j].questionId => i = j

\* The manual status of an item was set after a score had been typed for it,
\* the student having had no grade for it: the entry the score edit created
\* (confidence 0) holds both.
C19_Witness ==
    /\ lastOp = "updateManualGradingStatus"
    /\ \E s \in 1..NumStudents :
        LET grades == repository.studentSubmissions[s].grades
        IN  \E i \in 1..Len(grades) :
                /\ grades[i].confidence = 0
                /\ grades[i].hasScore
                /\ grades[i].score = 5
                /\ grades[i].manualStatus = 1
                /\ \A j \in 1..Len(grades) :
                        grades[j].questionId = grades[i].questionId => i = j

\* C20: the repository is mirrored to session storage.  Every operation that
\* changes the repository in memory (grades, checkpoints, comments,
\* broadcasts) ends with the item 'currentRepository' equal to it.
C20_Mirrored ==
    [][<<repository, gradingCheckpoints, appState>>'
          # <<repository, gradingCheckpoints, appState>>
       => sessionStorage' = Stored(repository', gradingCheckpoints', appState')]_vars

\* ------------------------------------------ claims about the global statistics
RECURSIVE SumOfCategories(_, _)
SumOfCategories(gs, i) ==
    IF i > Len(CategoryKeys) THEN RatInt(0)
    ELSE RatAdd(gs[CategoryKeys[i]], SumOfCategories(gs, i + 1))

\* C30: in every result of calculateGradingStats each of the five global
\* category values lies between 0 and 100, and the five sum to
\* globalStats.totalWeight.
C30_GlobalPartition ==
    StatsReturned =>
        LET gs == statsResult.globalStats
        IN  /\ \A c \in Categories :
                /\ ~RatLess(gs[c], RatInt(0))
                /\ ~RatLess(RatInt(100), gs[c])
            /\ SumOfCategories(gs, 1) = gs.totalWeight

\* Stats of two questions and two students in which three categories at
\* least hold a part of the weight, none of them all of it.
C30_Witness ==
    /\ StatsReturned
    /\ NumQuestions = 2
    /\ NumStudents = 2
    /\ Cardinality({c \in Categories :
                        RatLess(RatInt(0), statsResult.globalStats[c])}) >= 3
    /\ statsResult.globalStats.totalWeight = RatInt(100)
    /\ SumOfCategories(statsResult.globalStats, 1) = RatInt(100)

\* ------------------------------------------------- claims about score edits
\* C29: a score edit through handleScoreChange, one that creates the grade
\* entry included, leaves the result of calculateGradingStats under every pair
\* of thresholds and the triage list under every stored pair as they were.
C29_ScoreEditKeepsCategories ==
    [][lastOp' = "handleScoreChange" =>
          /\ \A t \in ThresholdPairs :
                calculateGradingStats(repository', t) = calculateGradingStats(repository, t)
          /\ \A storage \in StorageChoices :
                renderStudentExamsList(repository', storage,
                                       NoQuestionFilter, NoStudentFilter)
                  = renderStudentExamsList(repository, storage,
                                           NoQuestionFilter, NoStudentFilter)]_vars

\* --------------------------------------------- claims about the manual status
\* The gradable leaf items of the question named id: its subquestions when it
\* is a parent, with one subquestion or more, else the item itself.
LeafIdsOf(id) ==
    LET q == TopLevel(id)
    IN  IF q = {} THEN {id}
        ELSE UNION {{subItems(repository.questions[i])[j].id :
                        j \in 1..Len(subItems(repository.questions[i]))} : i \in q}

\* C22: after updateManualGradingStatus(repository, studentName, questionId,
\* status) for a student of the repository, every gradable leaf item of the
\* named question has a grade of that student with manualStatus = status.
C22_StatusReachesLeaves ==
    (lastOp = "updateManualGradingStatus" /\ lastArgs.outcome # "return") =>
        \A id \in LeafIdsOf(lastArgs.questionId) :
            \E s \in 1..NumStudents :
                /\ repository.studentSubmissions[s].name = lastArgs.studentName
                /\ \E i \in GradeEntries(repository.studentSubmissions[s], id) :
                       repository.studentSubmissions[s].grades[i].manualStatus
                         = lastArgs.status

\* ------------------------------------------------ claims about the PDF viewer
\* C23: a call of initializePdfViewer that a newer call has superseded by the
\* time it returns does not return true, does not set up the arrows and
\* schedules no scroll; of two calls that have returned true the earlier had
\* returned before the later started.
C23_SupersededNeverSucceeds ==
    /\ \A c \in 1..Len(calls) :
           (calls[c].ret = "true" \/ calls[c].arrows \/ calls[c].timer # "none")
               => calls[c].latest = c
    /\ \A c, d \in 1..Len(calls) :
           (c < d /\ calls[c].ret = "true" /\ calls[d].ret = "true")
               => calls[c].latest < d

\* The first call had its document, and a page in the container, when the
\* second started; it found itself superseded and returned, and the second
\* returned true with the arrows set up and the scroll scheduled.
C23_Witness ==
    /\ Len(calls) = 2
    /\ calls[1].loaded
    /\ calls[1].pageNum >= 1
    /\ calls[1].pc = "done"
    /\ calls[1].latest = 2
    /\ calls[1].ret # "true"
    /\ calls[2].ret = "true"
    /\ calls[2].arrows
    /\ calls[2].timer = "set"

\* All calls have returned, one at least with its document.
AllSettled ==
    /\ calls # <<>>
    /\ \A c \in 1..Len(calls) : calls[c].pc = "done"
    /\ \E c \in 1..Len(calls) : calls[c].loaded

LastLoaded == CHOOSE c \in 1..Len(calls) :
                  calls[c].loaded /\ \A d \in 1..Len(calls) : calls[d].loaded => d <= c

\* The page wrappers of the container on the page, in their order.
WrappersShown ==
    SelectSeq(containers[pageContainer], LAMBDA child : child.kind = "page")

\* C24: once all overlapping calls on the page's container have settled, the
\* container holds the page wrappers 1..numPages of the most recently started
\* call that loaded its document, in page order, and no other.
C24_NoStalePages ==
    AllSettled =>
        WrappersShown = [n \in 1..calls[LastLoaded].numPages |-> PageWrapper(LastLoaded, n)]

\* C25: stale exam loads are aborted.  Whenever a loadStudentExam call gets to
\* render checkpoints, comments and circles, it is the most recently started
\* call, its viewer call returned true without another call having started
\* since, and what it renders is its own question id for the student it was
\* called with, who is the current student; a call followed by another load
\* before its PDF initialisation finished therefore never renders.
C25_StaleLoadsAborted ==
    [][renderedFor' # renderedFor =>
          LET c == renderedFor'.call
          IN  /\ c = currentRenderId'
              /\ calls'[c].ret = "true"
              /\ calls'[c].latest = c
              /\ calls'[c].load = [isLoad |-> TRUE, student |-> currentStudent',
                                   questionId |-> currentQuestionId']
              /\ renderedFor'.questionId = currentQuestionId'
              /\ renderedFor'.student = currentStudent'
              /\ checkpoints' = relevantCheckpoints(repository', gradingCheckpoints',
                                                    currentQuestionId')]_vars

\* A first load was superseded after its document had arrived and has
\* returned without rendering; the second load, of another student's other
\* item, has rendered.
C25_Witness ==
    /\ Len(calls) = 2
    /\ calls[1].load.isLoad /\ calls[1].pc = "done" /\ calls[1].loaded
    /\ calls[1].ret # "true"
    /\ calls[1].load.student # calls[2].load.student
    /\ calls[1].load.questionId # calls[2].load.questionId
    /\ renderedFor.call = 2
    /\ overlayShown

\* ------------------------------------------------ claims about the finalize button
\* C26: the finalize handler only marks items of the exam on display.  When
\* the handler has gone through the checkpoints array, every question id it
\* passed on is currentQuestionId or one of its subquestions, and the
\* checkpoints were rendered for the current student, also while a newly
\* requested exam is loading or after its load failed.
C26_FinalizeMarksDisplayedExam ==
    (lastOp = "finalize" /\ lastArgs.viaCheckpoints) =>
        /\ \A k \in 1..Len(lastArgs.marked) :
               lastArgs.marked[k] \in {currentQuestionId} \cup LeafIdsOf(currentQuestionId)
        /\ renderedFor.student = currentStudent

\* The manualStatus a student has on an item in repo, 0 with no grade entry.
manualStatusIn(repo, s, id) ==
    LET g == GradeOf(repo.studentSubmissions[s], id)
    IN  IF g.found THEN g.grade.manualStatus ELSE 0

\* The finalize handler has just run to its end.
Finalized == lastOp = "finalize" /\ lastArgs.outcome = "done"

\* C21: manualStatus counts the finalize passes.  A finalize pass leaves every
\* grade it finalized with a manualStatus one above the one it had.
C21_FinalizeCountsPasses ==
    [][(steps' = steps + 1 /\ Finalized') =>
          \A k \in 1..Len(lastArgs'.targets) :
              manualStatusIn(repository', currentStudent, lastArgs'.targets[k])
                = manualStatusIn(repository, currentStudent, lastArgs'.targets[k]) + 1]_vars

\* C27: finalizing never demotes a grade.  Under the finalize handler no
\* manualStatus of any student's grade decreases.
C27_FinalizeNeverDemotes ==
    [][(steps' = steps + 1 /\ lastOp' = "finalize") =>
          \A s \in 1..Len(repository.studentSubmissions) :
              \A g \in 1..Len(repository.studentSubmissions[s].grades) :
                  LET id == repository.studentSubmissions[s].grades[g].questionId
                  IN  manualStatusIn(repository', s, id) >= manualStatusIn(repository, s, id)]_vars

\* C28: finalizing is reflected in the statistics.  Once the finalize handler
\* has run to its end, every (student, leaf item) pair it set the status of
\* is counted under gradedOnce or graded2Plus by the next calculateGradingStats,
\* whatever the thresholds, under either definition of calculateGradingStats.
C28_FinalizeReflectedInStats ==
    Finalized =>
        \A t \in ThresholdPairs : \A k \in 1..Len(lastArgs.targets) :
            \A m \in 1..Len(LeafItems(repository.questions)) :
                LET leaf == LeafItems(repository.questions)[m]
                    student == repository.studentSubmissions[currentStudent]
                IN  leaf.id = lastArgs.targets[k] =>
                        /\ pairCategory(repository, leaf, student, t)
                             \in {"gradedOnce", "graded2Plus"}
                        /\ pairCategoryByHistory(repository, leaf, student, t)
                             \in {"gradedOnce", "graded2Plus"}
====
